---- MODULE Spec2Model ----
(***************************************************************************)
(* Model of the loft per-service daemon (src/src/daemon): the shared       *)
(* DaemonState, the Control Interface (dbus.rs), the relay server          *)
(* (messaging.rs), the Chrome process supervisor and the CDP extension     *)
(* loader (mod.rs).                                                        *)
(*                                                                         *)
(* The daemon runs on tokio's multi-thread runtime (main.rs:26), so the    *)
(* supervisor task, the D-Bus handlers, the tray thread, the signal task   *)
(* and the relay connections interleave at the granularity of their        *)
(* atomic loads/stores and lock operations.                                *)
(***************************************************************************)
EXTENDS Integers, Sequences, FiniteSets, TLC

VARIABLES
    \* ---- DaemonState (mod.rs:20-32)
    visible,          \* AtomicBool
    quit_requested,   \* AtomicBool
    chrome_pid,       \* Mutex<Option<u32>> contents: 0 is None
    pid_lock,         \* who holds the chrome_pid mutex: "free" | "sup"
    show_signal,      \* tokio Notify: "empty" | "permit" | "waiting" | "notified"
    \* ---- ChromeManager::run_loop (mod.rs:257-301)
    sup_pc,           \* position of the supervisor task
    wait_for_show,    \* the loop's local flag
    \* ---- the operating system's view of the browser
    nspawn,           \* number of browser processes spawned so far (= newest pid)
    child,            \* newest browser process: "none" | "alive" | "exited"
    killed,           \* pids that were sent SIGTERM by request_quit
    \* ---- request_quit callers (D-Bus Quit, tray Quit, signal task)
    qpc,              \* caller -> position inside request_quit
    \* ---- broadcast channel cmd_tx (mod.rs:36) and its subscribers
    sent,             \* number of commands sent so far
    buf,              \* retained commands, oldest first (at most CHANNEL_DEPTH)
    hist,             \* history: every command sent, in order
    sub,              \* subscriber -> "none" | "open" | "closed"
    cursor,           \* subscriber -> position of the next command it reads
    rcvd,             \* subscriber -> commands it received and handled, in order
    lagged,           \* subscriber -> number of Lagged indications it got
    missed,           \* subscriber -> number of commands reported skipped
    subAt,            \* history: subscriber -> value of sent when it subscribed
    \* ---- start-up of daemon processes for one service (run, mod.rs:91-120)
    owner,            \* owner of the bus name chat.loft.<service>: 0 is nobody
    spc,              \* process -> position in run
    fwd,              \* process -> Show calls it received from later start-ups
    \* ---- load_extension_via_cdp (mod.rs:402-479) and the browser's end of
    \*      the debugging pipe
    cdp_pc,           \* "send" | "read" | "done"
    cdp_result,       \* the value returned, once cdp_pc = "done"
    accumulated,      \* bytes read and not yet consumed
    deadline_passed,  \* Instant::now() > deadline
    skipped,          \* history: the loader passed over a complete message
    daemon_fds,       \* the daemon's ends of the two pipes that are open
    cmd_pipe,         \* requests the loader wrote to the command pipe
    pipe,             \* bytes the browser wrote that the loader has not read
    pipe_open,        \* the browser still holds the write end
    wbuf,             \* rest of the message the browser is writing
    request_seen,     \* the loader's request reached the browser
    answer,           \* history: outcome of the id:1 response the browser wrote
    answer_at,        \* history: "none" | "writing" | "in_pipe" | "read"
    \* ---- a native-messaging byte stream (messaging.rs:49-105)
    wire,             \* bytes written and not yet read
    wire_closed,      \* the writing end was closed
    frames,           \* history: the frames written, in order
    decoded,          \* history: the results of the decodes, in order
    \* ---- the relay server's connection (messaging.rs:130-215); wire is then
    \*      the stream from the relay process to the daemon
    badge_count,      \* DaemonState.badge_count (AtomicU32)
    conn_out,         \* connection -> bytes the daemon wrote to it
    processed,        \* history: the inbound frames decoded and dispatched
    readyAt,          \* history: value of sent when the peer sent ready, or -1
    conn_err,         \* history: what ended the connection last, or "none"
    \* ---- LoftService::toggle (dbus.rs:32-39) at the granularity of its load
    \*      of visible and the call it then makes
    toggle_saw,       \* "none" | "visible" | "hidden": the value a Toggle loaded
    \* ---- run from the construction of the state on (mod.rs:109-234) and the
    \*      socket server task it spawns (messaging.rs:130-159)
    boot_pc,          \* position of run
    tray_log,         \* history: [delay, ok] of every tray attempt, in order
    listener,         \* "not_started" | "starting" | "listening" | "failed"
    start_minimized,  \* DaemonState.start_minimized (AtomicBool)
    \* ---- preferences: DaemonState.dnd, DaemonState.show_titlebar and the
    \*      service's configuration file
    dnd,              \* AtomicBool
    show_titlebar,    \* AtomicBool
    saved_titlebar,   \* show_titlebar of the stored ServiceConfig
    \* ---- the relay process, loft --native-messaging (run_relay,
    \*      messaging.rs:223-289), between the browser's pipes and the socket
    rp_pc,            \* position of run_relay
    first_msg,        \* the value of the first frame, once read
    rp_connected,     \* UnixStream::connect returned a socket
    t1,               \* stdin -> socket thread: "unborn" | "running" | "ended"
    t2,               \* socket -> stdout thread: "unborn" | "running" | "ended"
    rp_stdin,         \* bytes the browser wrote to stdin, not yet read
    stdin_closed,     \* the browser closed its end of stdin
    stdout_closed,    \* the browser closed its end of stdout
    sock_in,          \* bytes the daemon wrote to the socket, not yet read
    sock_closed,      \* the daemon closed the connection
    sock_out,         \* history: the frames written to the socket, in order
    rp_stdout,        \* history: the frames written to stdout, in order
    browser_sent,     \* history: the frames the browser wrote, in order
    daemon_sent,      \* history: the frames the daemon wrote, in order
    stdin_read,       \* history: bytes read from stdin so far
    at_end,           \* history: thread -> frames the other thread had written
                      \*          when this one ended, or -1
    \* ---- history variables used to state the properties
    ncalls,           \* Show/Hide/Toggle/window_* operations applied so far
    nquits,           \* request_quit calls started so far
    lastCall,         \* last applied of Show/Hide/window_shown/window_hidden
    lastWriter,       \* last applied write of visible, the supervisor's included
    wakes,            \* notify_waiters calls that found the supervisor waiting
    resumes           \* times the supervisor left its wait-for-show suspension

daemonVars == <<visible, quit_requested, chrome_pid, pid_lock, show_signal>>
supVars    == <<sup_pc, wait_for_show>>
osVars     == <<nspawn, child, killed>>
chanVars   == <<sent, buf, hist>>
subVars    == <<sub, cursor, rcvd, lagged, missed, subAt>>
histVars   == <<ncalls, nquits, lastCall, lastWriter, wakes, resumes>>

startVars  == <<owner, spc, fwd>>
cdpVars    == <<cdp_pc, cdp_result, accumulated, deadline_passed, skipped,
                daemon_fds, cmd_pipe>>
pipeVars   == <<pipe, pipe_open, wbuf, request_seen, answer, answer_at>>
codecVars  == <<wire, wire_closed, frames, decoded>>
relayVars  == <<badge_count, conn_out, processed, readyAt, conn_err>>
ifaceVars  == <<toggle_saw>>
bootVars   == <<boot_pc, tray_log, listener, start_minimized>>
prefVars   == <<dnd, show_titlebar, saved_titlebar>>
procVars   == <<rp_pc, first_msg, rp_connected, t1, t2, rp_stdin, stdin_closed,
                stdout_closed, sock_in, sock_closed, sock_out, rp_stdout,
                browser_sent, daemon_sent, stdin_read, at_end>>
extVars    == <<codecVars, relayVars, ifaceVars, bootVars, prefVars, procVars>>
otherVars  == <<subVars, startVars, cdpVars, pipeVars, extVars>>

vars == <<daemonVars, supVars, osVars, qpc, chanVars, histVars, otherVars>>

----------------------------------------------------------------------------
(* Bounds of the model *)

\* Show/Hide/Toggle calls and window_shown/window_hidden frames applied in a run
MaxCalls == 3
\* request_quit calls started in a run
MaxQuits == 2
\* commands sent in a run of the broadcast specification
MaxSends == 18
\* daemon processes started for the same service
MaxLaunches == 3
\* bytes the debugging pipe holds before the browser's write waits
PipeCap == 4
\* frames written to a native-messaging stream in a run
MaxFrames == 3
\* frames the peer of a relay connection writes in a run
MaxInbound == 2
\* commands broadcast in a run of the connection-failure specification
MaxCommands == 2

(* Program constants *)

\* tokio::sync::broadcast::channel(16)
CHANNEL_DEPTH == 16

\* let mut buf = vec![0u8; 8192]
BUF_SIZE == 8192

\* if len > 1_048_576  (messaging.rs:55, 83)
MAX_MESSAGE_SIZE == 1048576

QuitCallers == {"dbus", "tray", "signal"}

Procs == 1..MaxLaunches

\* values of cdp_result
NoResult == [status |-> "none", msg |-> ""]

\* subscribers of cmd_tx: the GNOME Shell handler task (mod.rs:188) and a relay
\* connection (messaging.rs:151)
RelayConns == {"relay"}
\* a second relay connection, of which only the command side is modelled
OtherConns == {"other"}
Subs == {"gnome"} \cup RelayConns \cup OtherConns

----------------------------------------------------------------------------
(* Broadcast channel: tokio::sync::broadcast with CHANNEL_DEPTH slots.     *)
(* A send never waits: when the buffer is full the oldest value is         *)
(* overwritten.                                                            *)

(* With no live receiver send fails and stores nothing.                    *)

ChannelSend(msg) ==
    IF \E s \in Subs : sub[s] = "open"
       THEN /\ sent' = sent + 1
            /\ buf' = IF Len(buf) < CHANNEL_DEPTH
                         THEN Append(buf, msg)
                         ELSE Append(Tail(buf), msg)
            /\ hist' = Append(hist, msg)
       ELSE UNCHANGED <<sent, buf, hist>>

\* number of commands no longer retained
ChannelTail == sent - Len(buf)

\* Receiver::recv for subscriber s when it does not have to wait: a receiver
\* whose next command was overwritten gets Lagged(n) and is moved to the oldest
\* retained command
RecvResult(s) ==
    IF cursor[s] <= ChannelTail
       THEN [kind |-> "Lagged", n |-> ChannelTail + 1 - cursor[s], next |-> ChannelTail + 1]
       ELSE [kind |-> "Ok", msg |-> buf[cursor[s] - ChannelTail], next |-> cursor[s] + 1]

\* Notify::notify_one instead of notify_waiters: a permit is stored when
\* nobody waits
NotifyWaiters_notify_one ==
    show_signal' = CASE show_signal = "waiting" -> "notified"
                     [] show_signal = "empty"   -> "permit"
                     [] OTHER                   -> show_signal

(* tokio Notify::notify_waiters: wakes the registered waiter, stores no    *)
(* permit when nobody waits.                                               *)
NotifyWaiters ==
    show_signal' = IF show_signal = "waiting" THEN "notified" ELSE show_signal

----------------------------------------------------------------------------
(* DaemonState operations *)

\* notify_one in place of notify_waiters: a call that finds nobody waiting
\* leaves a permit behind
request_show_notify_one ==
    /\ visible' = TRUE
    /\ ChannelSend("ShowWindow")
    /\ show_signal' = CASE show_signal = "waiting" -> "notified"
                       [] show_signal = "empty"   -> "permit"
                       [] OTHER                   -> show_signal
    /\ UNCHANGED <<quit_requested, chrome_pid, pid_lock>>

request_show ==
    /\ visible' = TRUE
    /\ ChannelSend("ShowWindow")
    /\ NotifyWaiters
    /\ UNCHANGED <<quit_requested, chrome_pid, pid_lock>>

\* the store writes the wrong value
request_hide_stores_true ==
    /\ visible' = TRUE
    /\ ChannelSend("HideWindow")
    /\ UNCHANGED <<quit_requested, chrome_pid, pid_lock, show_signal>>

\* request_hide also notifies the show signal, as request_show does
request_hide_wakes ==
    /\ visible' = FALSE
    /\ ChannelSend("HideWindow")
    /\ NotifyWaiters
    /\ UNCHANGED <<quit_requested, chrome_pid, pid_lock>>

request_hide ==
    /\ visible' = FALSE
    /\ ChannelSend("HideWindow")
    /\ UNCHANGED <<quit_requested, chrome_pid, pid_lock, show_signal>>

\* history bookkeeping shared by the calls that write visible
Applied(call) ==
    /\ ncalls' = ncalls + 1
    /\ lastCall' = call
    /\ lastWriter' = call
    /\ wakes' = IF call \in {"Show"} /\ show_signal = "waiting" THEN wakes + 1 ELSE wakes
    /\ UNCHANGED <<nquits, resumes>>

----------------------------------------------------------------------------
(* Control Interface (dbus.rs:20-52) *)

Show ==
    /\ ncalls < MaxCalls
    /\ Applied("Show")
    /\ request_show
    /\ UNCHANGED <<supVars, osVars, qpc>>
    /\ UNCHANGED otherVars

Hide ==
    /\ ncalls < MaxCalls
    /\ Applied("Hide")
    /\ request_hide
    /\ UNCHANGED <<supVars, osVars, qpc>>
    /\ UNCHANGED otherVars

\* the branches of toggle are exchanged
ToggleDispatch_exchanged(saw_visible) ==
    IF saw_visible
       THEN Applied("Show") /\ request_show
       ELSE Applied("Hide") /\ request_hide

\* if self.state.is_visible() { request_hide() } else { request_show() }
ToggleDispatch(saw_visible) ==
    IF saw_visible
       THEN Applied("Hide") /\ request_hide
       ELSE Applied("Show") /\ request_show

\* toggle when nothing runs between its load of visible and its call
ToggleCall ==
    /\ ToggleDispatch(visible)
    /\ UNCHANGED <<supVars, osVars, qpc>>
    /\ UNCHANGED otherVars

\* toggle's load: self.state.is_visible()  (dbus.rs:34, mod.rs:49-51)
ToggleLoad ==
    /\ ncalls < MaxCalls
    /\ toggle_saw = "none"
    /\ toggle_saw' = IF visible THEN "visible" ELSE "hidden"
    /\ UNCHANGED <<daemonVars, supVars, osVars, qpc, chanVars, histVars>>
    /\ UNCHANGED <<subVars, startVars, cdpVars, pipeVars, codecVars, relayVars, bootVars, prefVars, procVars>>

\* toggle's call of request_hide or request_show on the value it loaded
\* (dbus.rs:35, 37)
ToggleAct ==
    /\ toggle_saw # "none"
    /\ ToggleDispatch(toggle_saw = "visible")
    /\ toggle_saw' = "none"
    /\ UNCHANGED <<supVars, osVars, qpc>>
    /\ UNCHANGED <<subVars, startVars, cdpVars, pipeVars, codecVars, relayVars, bootVars, prefVars, procVars>>

Toggle ==
    /\ ncalls < MaxCalls
    /\ ToggleCall

\* GetStatus().visible
GetStatusVisible == visible

----------------------------------------------------------------------------
(* Relay server, inbound frames (messaging.rs:171-197) *)

RelayWindowHidden ==
    /\ ncalls < MaxCalls
    /\ Applied("window_hidden")
    /\ visible' = FALSE
    /\ UNCHANGED <<quit_requested, chrome_pid, pid_lock, show_signal>>
    /\ UNCHANGED <<supVars, osVars, qpc, chanVars>>
    /\ UNCHANGED otherVars

RelayWindowShown ==
    /\ ncalls < MaxCalls
    /\ Applied("window_shown")
    /\ visible' = TRUE
    /\ UNCHANGED <<quit_requested, chrome_pid, pid_lock, show_signal>>
    /\ UNCHANGED <<supVars, osVars, qpc, chanVars>>
    /\ UNCHANGED otherVars

----------------------------------------------------------------------------
(* DaemonState::request_quit (mod.rs:74-86), one action per shared-memory  *)
(* operation: the store of quit_requested, the try_lock section that sends *)
(* SIGTERM, and the notify_waiters call.                                   *)

QuitStore(c) ==
    /\ qpc[c] = "idle"
    /\ nquits < MaxQuits
    /\ nquits' = nquits + 1
    /\ quit_requested' = TRUE
    /\ qpc' = [qpc EXCEPT ![c] = "stored"]
    /\ UNCHANGED <<visible, chrome_pid, pid_lock, show_signal>>
    /\ UNCHANGED <<supVars, osVars, chanVars, ncalls, lastCall, lastWriter, wakes, resumes>>
    /\ UNCHANGED otherVars

\* the pid is taken out of the Option when it is signalled
QuitSignal_takes_pid(c) ==
    /\ qpc[c] = "stored"
    /\ killed' = IF pid_lock = "free" /\ chrome_pid # 0
                    THEN killed \cup {chrome_pid}
                    ELSE killed
    /\ chrome_pid' = IF pid_lock = "free" THEN 0 ELSE chrome_pid
    /\ qpc' = [qpc EXCEPT ![c] = "signalled"]
    /\ UNCHANGED <<visible, quit_requested, pid_lock, show_signal>>
    /\ UNCHANGED <<supVars, nspawn, child, chanVars, histVars>>
    /\ UNCHANGED otherVars

\* if let Ok(guard) = chrome_pid.try_lock() { if let Some(pid) = *guard { kill(pid, SIGTERM) } }
QuitSignal(c) ==
    /\ qpc[c] = "stored"
    /\ killed' = IF pid_lock = "free" /\ chrome_pid # 0
                    THEN killed \cup {chrome_pid}
                    ELSE killed
    /\ qpc' = [qpc EXCEPT ![c] = "signalled"]
    /\ UNCHANGED <<daemonVars, supVars, nspawn, child, chanVars, histVars>>
    /\ UNCHANGED otherVars

\* the signal task ends after its one request_quit (mod.rs:218-230)
QuitNotify(c) ==
    /\ qpc[c] = "signalled"
    /\ NotifyWaiters
    /\ wakes' = IF show_signal = "waiting" THEN wakes + 1 ELSE wakes
    /\ qpc' = [qpc EXCEPT ![c] = IF c = "signal" THEN "done" ELSE "idle"]
    /\ UNCHANGED <<visible, quit_requested, chrome_pid, pid_lock>>
    /\ UNCHANGED <<supVars, osVars, chanVars, ncalls, nquits, lastCall, lastWriter, resumes>>
    /\ UNCHANGED otherVars

----------------------------------------------------------------------------
(* ChromeManager::run_loop (mod.rs:257-301) *)

LoadOutcomes == {"ok", "cdp_error", "timeout", "pipe_closed"}

\* top of the loop with wait_for_show set: show_signal.notified() is created
\* and polled; a stored permit completes it at once
SupBeginWait ==
    /\ sup_pc = "loop_top" /\ wait_for_show
    /\ show_signal' = IF show_signal = "permit" THEN "notified" ELSE "waiting"
    /\ sup_pc' = "waiting"
    /\ UNCHANGED <<visible, quit_requested, chrome_pid, pid_lock>>
    /\ UNCHANGED <<wait_for_show, osVars, qpc, chanVars, histVars>>
    /\ UNCHANGED otherVars

\* the load of quit_requested after the wake is left out
SupWake_ignores_quit ==
    /\ sup_pc = "waiting" /\ show_signal = "notified"
    /\ show_signal' = "empty"
    /\ resumes' = resumes + 1
    /\ sup_pc' = "loop_top" /\ wait_for_show' = FALSE
    /\ UNCHANGED <<visible, quit_requested, chrome_pid, pid_lock>>
    /\ UNCHANGED <<osVars, qpc, chanVars, ncalls, nquits, lastCall, lastWriter, wakes>>
    /\ UNCHANGED otherVars

\* notified().await returns; quit_requested is loaded (mod.rs:264-271)
SupWake ==
    /\ sup_pc = "waiting" /\ show_signal = "notified"
    /\ show_signal' = "empty"
    /\ resumes' = resumes + 1
    /\ IF quit_requested
          THEN sup_pc' = "terminated" /\ UNCHANGED wait_for_show
          ELSE sup_pc' = "loop_top" /\ wait_for_show' = FALSE
    /\ UNCHANGED <<visible, quit_requested, chrome_pid, pid_lock>>
    /\ UNCHANGED <<osVars, qpc, chanVars, ncalls, nquits, lastCall, lastWriter, wakes>>
    /\ UNCHANGED otherVars

\* spawn_chrome up to the spawn of the process (mod.rs:274, 303-366)
SupSpawn ==
    /\ sup_pc = "loop_top" /\ ~wait_for_show
    /\ \/ /\ nspawn' = nspawn + 1
          /\ child' = "alive"
          /\ sup_pc' = "loading"
       \/ /\ sup_pc' = "failed"
          /\ UNCHANGED <<nspawn, child>>
    /\ UNCHANGED <<daemonVars, wait_for_show, killed, qpc, chanVars, histVars>>
    /\ UNCHANGED otherVars

\* a failed load sends the loop back to its top
SupLoadExtension_retries ==
    /\ sup_pc = "loading"
    /\ \E outcome \in LoadOutcomes :
          sup_pc' = IF outcome = "ok" THEN "lock_spawn" ELSE "loop_top"
    /\ UNCHANGED <<daemonVars, wait_for_show, osVars, qpc, chanVars, histVars>>
    /\ UNCHANGED otherVars

\* spawn_chrome awaits load_extension_via_cdp and propagates its error
\* (mod.rs:370-373, 274)
SupLoadExtension ==
    /\ sup_pc = "loading"
    /\ \E outcome \in LoadOutcomes :
          sup_pc' = IF outcome = "ok" THEN "lock_spawn" ELSE "failed"
    /\ UNCHANGED <<daemonVars, wait_for_show, osVars, qpc, chanVars, histVars>>
    /\ UNCHANGED otherVars

\* *self.state.chrome_pid.lock().await = pid  (mod.rs:276)
SupLockSpawn ==
    /\ sup_pc = "lock_spawn" /\ pid_lock = "free"
    /\ pid_lock' = "sup"
    /\ sup_pc' = "write_pid"
    /\ UNCHANGED <<visible, quit_requested, chrome_pid, show_signal>>
    /\ UNCHANGED <<wait_for_show, osVars, qpc, chanVars, histVars>>
    /\ UNCHANGED otherVars

\* the identifier is not stored
SupWritePid_records_none ==
    /\ sup_pc = "write_pid"
    /\ sup_pc' = "unlock_spawn"
    /\ UNCHANGED <<visible, quit_requested, chrome_pid, pid_lock, show_signal>>
    /\ UNCHANGED <<wait_for_show, osVars, qpc, chanVars, histVars>>
    /\ UNCHANGED otherVars

SupWritePid ==
    /\ sup_pc = "write_pid"
    /\ chrome_pid' = nspawn
    /\ sup_pc' = "unlock_spawn"
    /\ UNCHANGED <<visible, quit_requested, pid_lock, show_signal>>
    /\ UNCHANGED <<wait_for_show, osVars, qpc, chanVars, histVars>>
    /\ UNCHANGED otherVars

SupUnlockSpawn ==
    /\ sup_pc = "unlock_spawn"
    /\ pid_lock' = "free"
    /\ sup_pc' = "set_visible"
    /\ UNCHANGED <<visible, quit_requested, chrome_pid, show_signal>>
    /\ UNCHANGED <<wait_for_show, osVars, qpc, chanVars, histVars>>
    /\ UNCHANGED otherVars

\* self.state.visible.store(true)  (mod.rs:277)
SupSetVisible ==
    /\ sup_pc = "set_visible"
    /\ visible' = TRUE
    /\ lastWriter' = "spawn"
    /\ sup_pc' = "running"
    /\ UNCHANGED <<quit_requested, chrome_pid, pid_lock, show_signal>>
    /\ UNCHANGED <<wait_for_show, osVars, qpc, chanVars, ncalls, nquits, lastCall, wakes, resumes>>
    /\ UNCHANGED otherVars

\* the supervisor goes on without waiting for the process to exit
SupChildExited_no_wait ==
    /\ sup_pc = "running"
    /\ sup_pc' = "lock_exit"
    /\ UNCHANGED <<daemonVars, wait_for_show, osVars, qpc, chanVars, histVars>>
    /\ UNCHANGED otherVars

\* child.wait().await returns  (mod.rs:284)
SupChildExited ==
    /\ sup_pc = "running" /\ child = "exited"
    /\ sup_pc' = "lock_exit"
    /\ UNCHANGED <<daemonVars, wait_for_show, osVars, qpc, chanVars, histVars>>
    /\ UNCHANGED otherVars

\* *self.state.chrome_pid.lock().await = None  (mod.rs:285)
SupLockExit ==
    /\ sup_pc = "lock_exit" /\ pid_lock = "free"
    /\ pid_lock' = "sup"
    /\ sup_pc' = "clear_pid"
    /\ UNCHANGED <<visible, quit_requested, chrome_pid, show_signal>>
    /\ UNCHANGED <<wait_for_show, osVars, qpc, chanVars, histVars>>
    /\ UNCHANGED otherVars

SupClearPid ==
    /\ sup_pc = "clear_pid"
    /\ chrome_pid' = 0
    /\ sup_pc' = "unlock_exit"
    /\ UNCHANGED <<visible, quit_requested, pid_lock, show_signal>>
    /\ UNCHANGED <<wait_for_show, osVars, qpc, chanVars, histVars>>
    /\ UNCHANGED otherVars

SupUnlockExit ==
    /\ sup_pc = "unlock_exit"
    /\ pid_lock' = "free"
    /\ sup_pc' = "clear_visible"
    /\ UNCHANGED <<visible, quit_requested, chrome_pid, show_signal>>
    /\ UNCHANGED <<wait_for_show, osVars, qpc, chanVars, histVars>>
    /\ UNCHANGED otherVars

\* the store after the exit is left out
SupClearVisible_keeps ==
    /\ sup_pc = "clear_visible"
    /\ sup_pc' = "check_quit"
    /\ UNCHANGED <<daemonVars, wait_for_show, osVars, qpc, chanVars, histVars>>
    /\ UNCHANGED otherVars

\* self.state.visible.store(false)  (mod.rs:286)
SupClearVisible ==
    /\ sup_pc = "clear_visible"
    /\ visible' = FALSE
    /\ lastWriter' = "exit"
    /\ sup_pc' = "check_quit"
    /\ UNCHANGED <<quit_requested, chrome_pid, pid_lock, show_signal>>
    /\ UNCHANGED <<wait_for_show, osVars, qpc, chanVars, ncalls, nquits, lastCall, wakes, resumes>>
    /\ UNCHANGED otherVars

\* the flag is consumed (swap(false)) instead of loaded
SupCheckQuit_swap ==
    /\ sup_pc = "check_quit"
    /\ quit_requested' = FALSE
    /\ IF quit_requested
          THEN sup_pc' = "terminated" /\ UNCHANGED wait_for_show
          ELSE sup_pc' = "loop_top" /\ wait_for_show' = TRUE
    /\ UNCHANGED <<visible, chrome_pid, pid_lock, show_signal>>
    /\ UNCHANGED <<osVars, qpc, chanVars, histVars>>
    /\ UNCHANGED otherVars

\* mod.rs:290-299
SupCheckQuit ==
    /\ sup_pc = "check_quit"
    /\ IF quit_requested
          THEN sup_pc' = "terminated" /\ UNCHANGED wait_for_show
          ELSE sup_pc' = "loop_top" /\ wait_for_show' = TRUE
    /\ UNCHANGED <<daemonVars, osVars, qpc, chanVars, histVars>>
    /\ UNCHANGED otherVars

Supervisor ==
    \/ SupBeginWait \/ SupWake \/ SupSpawn \/ SupLoadExtension
    \/ SupLockSpawn \/ SupWritePid \/ SupUnlockSpawn \/ SupSetVisible
    \/ SupChildExited
    \/ SupLockExit \/ SupClearPid \/ SupUnlockExit \/ SupClearVisible
    \/ SupCheckQuit

----------------------------------------------------------------------------
(* The browser process *)

\* the user closes the window: the browser exits on its own
BrowserClosed ==
    /\ child = "alive"
    /\ child' = "exited"
    /\ UNCHANGED <<daemonVars, supVars, nspawn, killed, qpc, chanVars, histVars>>
    /\ UNCHANGED otherVars

\* a browser that was sent SIGTERM exits
BrowserTerminated ==
    /\ child = "alive" /\ nspawn \in killed
    /\ child' = "exited"
    /\ UNCHANGED <<daemonVars, supVars, nspawn, killed, qpc, chanVars, histVars>>
    /\ UNCHANGED otherVars

----------------------------------------------------------------------------
(* The daemon: DaemonState::new (mod.rs:35-47) and the tasks of run *)

Init ==
    /\ visible = FALSE
    /\ quit_requested = FALSE
    /\ chrome_pid = 0
    /\ pid_lock = "free"
    /\ show_signal = "empty"
    /\ sup_pc = "loop_top"
    /\ wait_for_show = FALSE
    /\ nspawn = 0
    /\ child = "none"
    /\ killed = {}
    /\ qpc = [c \in QuitCallers |-> "idle"]
    /\ sent = 0
    /\ buf = <<>>
    /\ hist = <<>>
    /\ sub = [s \in Subs |-> IF s = "gnome" THEN "open" ELSE "none"]
    /\ cursor = [s \in Subs |-> 1]
    /\ rcvd = [s \in Subs |-> <<>>]
    /\ lagged = [s \in Subs |-> 0]
    /\ missed = [s \in Subs |-> 0]
    /\ subAt = [s \in Subs |-> 0]
    /\ owner = 0
    /\ spc = [p \in Procs |-> "start"]
    /\ fwd = [p \in Procs |-> 0]
    /\ cdp_pc = "send"
    /\ cdp_result = NoResult
    /\ accumulated = <<>>
    /\ deadline_passed = FALSE
    /\ skipped = FALSE
    /\ daemon_fds = {"read_fd", "write_fd"}
    /\ cmd_pipe = <<>>
    /\ pipe = <<>>
    /\ pipe_open = TRUE
    /\ wbuf = <<>>
    /\ request_seen = FALSE
    /\ answer = NoResult
    /\ answer_at = "none"
    /\ wire = <<>>
    /\ wire_closed = FALSE
    /\ frames = <<>>
    /\ decoded = <<>>
    /\ badge_count = 0
    /\ conn_out = [s \in RelayConns |-> <<>>]
    /\ processed = <<>>
    /\ readyAt = -1
    /\ conn_err = "none"
    /\ toggle_saw = "none"
    /\ boot_pc = "new_state"
    /\ tray_log = <<>>
    /\ listener = "not_started"
    /\ start_minimized = FALSE
    /\ dnd = FALSE
    /\ show_titlebar = FALSE
    /\ saved_titlebar = FALSE
    /\ rp_pc = "read_first"
    /\ first_msg = [kind |-> "atom", atom |-> "null", fields |-> [k \in {} |-> ""]]
    /\ rp_connected = FALSE
    /\ t1 = "unborn"
    /\ t2 = "unborn"
    /\ rp_stdin = <<>>
    /\ stdin_closed = FALSE
    /\ stdout_closed = FALSE
    /\ sock_in = <<>>
    /\ sock_closed = FALSE
    /\ sock_out = <<>>
    /\ rp_stdout = <<>>
    /\ browser_sent = <<>>
    /\ daemon_sent = <<>>
    /\ stdin_read = 0
    /\ at_end = [t \in {"t1", "t2"} |-> -1]
    /\ ncalls = 0
    /\ nquits = 0
    /\ lastCall = "none"
    /\ lastWriter = "none"
    /\ wakes = 0
    /\ resumes = 0

Next ==
    \/ Show \/ Hide \/ Toggle
    \/ RelayWindowHidden \/ RelayWindowShown
    \/ \E c \in QuitCallers : QuitStore(c) \/ QuitSignal(c) \/ QuitNotify(c)
    \/ Supervisor
    \/ BrowserClosed \/ BrowserTerminated

Spec == Init /\ [][Next]_vars

----------------------------------------------------------------------------
(* Subscribers of the broadcast channel *)

notSubVars == <<daemonVars, supVars, osVars, qpc, chanVars, histVars,
                 startVars, cdpVars, pipeVars, extVars>>

\* the newest command sent before the subscription is delivered to the new
\* connection
Accept_replays_last(s) ==
    /\ sub[s] # "open"
    /\ sub' = [sub EXCEPT ![s] = "open"]
    /\ cursor' = [cursor EXCEPT ![s] = IF sent > 0 THEN sent ELSE 1]
    /\ subAt' = [subAt EXCEPT ![s] = sent]
    /\ rcvd' = [rcvd EXCEPT ![s] = <<>>]
    /\ lagged' = [lagged EXCEPT ![s] = 0]
    /\ missed' = [missed EXCEPT ![s] = 0]
    /\ UNCHANGED notSubVars

\* start_socket_server accepts a connection and subscribes it
\* (messaging.rs:148-158)
Accept(s) ==
    /\ sub[s] # "open"
    /\ sub' = [sub EXCEPT ![s] = "open"]
    /\ cursor' = [cursor EXCEPT ![s] = sent + 1]
    /\ subAt' = [subAt EXCEPT ![s] = sent]
    /\ rcvd' = [rcvd EXCEPT ![s] = <<>>]
    /\ lagged' = [lagged EXCEPT ![s] = 0]
    /\ missed' = [missed EXCEPT ![s] = 0]
    /\ UNCHANGED notSubVars

\* Lagged is treated like Closed: the loop ends
OnLagged_breaks(s, r) ==
    /\ cursor' = [cursor EXCEPT ![s] = r.next]
    /\ lagged' = [lagged EXCEPT ![s] = @ + 1]
    /\ missed' = [missed EXCEPT ![s] = @ + r.n]
    /\ sub' = [sub EXCEPT ![s] = "closed"]
    /\ UNCHANGED <<rcvd, subAt>>

\* Err(Lagged(n)) => warn and go round the loop again
\* (messaging.rs:204-206, mod.rs:207-209)
OnLagged(s, r) ==
    /\ cursor' = [cursor EXCEPT ![s] = r.next]
    /\ lagged' = [lagged EXCEPT ![s] = @ + 1]
    /\ missed' = [missed EXCEPT ![s] = @ + r.n]
    /\ UNCHANGED <<sub, rcvd, subAt>>

\* only ShowWindow is forwarded
RelayOnOk_show_only(s, r, written) ==
    /\ cursor' = [cursor EXCEPT ![s] = r.next]
    /\ IF written
          THEN /\ rcvd' = [rcvd EXCEPT ![s] =
                             IF r.msg = "ShowWindow" THEN Append(@, r.msg) ELSE @]
               /\ UNCHANGED sub
          ELSE /\ sub' = [sub EXCEPT ![s] = "closed"]
               /\ UNCHANGED rcvd
    /\ UNCHANGED <<lagged, missed, subAt>>

\* Ok(daemon_msg) => write_nm_message_async(..).await?  (messaging.rs:201-203):
\* a failed write ends the connection
RelayOnOk(s, r, written) ==
    /\ cursor' = [cursor EXCEPT ![s] = r.next]
    /\ IF written
          THEN /\ rcvd' = [rcvd EXCEPT ![s] = Append(@, r.msg)]
               /\ UNCHANGED sub
          ELSE /\ sub' = [sub EXCEPT ![s] = "closed"]
               /\ UNCHANGED rcvd
    /\ UNCHANGED <<lagged, missed, subAt>>

\* the cmd_rx.recv() arm of handle_relay_connection (messaging.rs:199-211)
RelayRecv(s) ==
    /\ sub[s] = "open" /\ cursor[s] <= sent
    /\ LET r == RecvResult(s) IN
          IF r.kind = "Lagged"
             THEN OnLagged(s, r)
             ELSE \E written \in BOOLEAN : RelayOnOk(s, r, written)
    /\ UNCHANGED notSubVars

\* the read arm fails (I/O error, EOF, bad frame): `msg?` ends the connection
\* (messaging.rs:171-172)
RelayEnds(s) ==
    /\ sub[s] = "open"
    /\ sub' = [sub EXCEPT ![s] = "closed"]
    /\ UNCHANGED <<cursor, rcvd, lagged, missed, subAt>>
    /\ UNCHANGED notSubVars

\* the GNOME Shell handler task (mod.rs:188-213): ShowWindow and HideWindow
\* are passed to the shell helper, whose failures are only logged
GnomeRecv ==
    /\ sub["gnome"] = "open" /\ cursor["gnome"] <= sent
    /\ LET r == RecvResult("gnome") IN
          IF r.kind = "Lagged"
             THEN OnLagged("gnome", r)
             ELSE /\ cursor' = [cursor EXCEPT !["gnome"] = r.next]
                  /\ rcvd' = [rcvd EXCEPT !["gnome"] = Append(@, r.msg)]
                  /\ UNCHANGED <<sub, lagged, missed, subAt>>
    /\ UNCHANGED notSubVars

\* Toggle calls of the broadcast specification
BcastToggle ==
    /\ ncalls < MaxSends
    /\ ToggleCall

BcastNext ==
    \/ BcastToggle \/ Show \/ Hide
    \/ \E s \in RelayConns : Accept(s) \/ RelayRecv(s) \/ RelayEnds(s)
    \/ GnomeRecv

\* The broadcast channel and its subscribers, with enough sends for a
\* subscriber to fall more than CHANNEL_DEPTH commands behind
BcastSpec == Init /\ [][BcastNext]_vars

----------------------------------------------------------------------------
(* Start-up of daemon processes for one service: the singleton check, the  *)
(* forwarded Show and the registration of the bus name (mod.rs:96-120,     *)
(* dbus.rs:80-141). The session bus gives a well-known name to one         *)
(* connection at a time; zbus requests it without queueing, so a second    *)
(* registration fails.                                                     *)

notStartVars == <<daemonVars, supVars, osVars, qpc, chanVars, histVars,
                   subVars, cdpVars, pipeVars, extVars>>

\* dbus::is_already_running (dbus.rs:80-85) and the match on it (mod.rs:97-107)
StartCheck(p) ==
    /\ spc[p] = "start"
    /\ \E res \in {"ok", "err"} :
          spc' = [spc EXCEPT ![p] =
                     IF res = "err" THEN "check_err"
                     ELSE IF owner # 0 THEN "found" ELSE "absent"]
    /\ UNCHANGED <<owner, fwd>>
    /\ UNCHANGED notStartVars

\* dbus::call_show(definition).await?; return Ok(())  (mod.rs:100-101)
StartCallShow(p) ==
    /\ spc[p] = "found"
    /\ IF owner # 0
          THEN /\ fwd' = [fwd EXCEPT ![owner] = @ + 1]
               /\ spc' = [spc EXCEPT ![p] = "exit_ok"]
          ELSE /\ spc' = [spc EXCEPT ![p] = "exit_show_failed"]
               /\ UNCHANGED fwd
    /\ UNCHANGED owner
    /\ UNCHANGED notStartVars

\* dbus::register(..).await.context("Failed to register D-Bus service")?
\* (mod.rs:113-120, dbus.rs:126-141)
StartRegister(p) ==
    /\ spc[p] \in {"absent", "check_err"}
    /\ \/ /\ owner = 0
          /\ owner' = p
          /\ spc' = [spc EXCEPT ![p] = "registered"]
       \/ /\ owner # 0
          /\ spc' = [spc EXCEPT ![p] = "exit_name_taken"]
          /\ UNCHANGED owner
       \/ /\ spc[p] = "check_err"
          /\ spc' = [spc EXCEPT ![p] = "exit_bus_error"]
          /\ UNCHANGED owner
    /\ UNCHANGED fwd
    /\ UNCHANGED notStartVars

\* steps 4 to 7 of run (mod.rs:122-230): a failure ends the process, which
\* gives the name back
StartSetup(p) ==
    /\ spc[p] = "registered"
    /\ \/ /\ spc' = [spc EXCEPT ![p] = "supervising"]
          /\ UNCHANGED owner
       \/ /\ spc' = [spc EXCEPT ![p] = "exit_setup_failed"]
          /\ owner' = 0
    /\ UNCHANGED fwd
    /\ UNCHANGED notStartVars

\* manager.run_loop().await returns and the process ends (mod.rs:233-234)
StartDaemonEnds(p) ==
    /\ spc[p] = "supervising"
    /\ spc' = [spc EXCEPT ![p] = "exit_done"]
    /\ owner' = 0
    /\ UNCHANGED fwd
    /\ UNCHANGED notStartVars

StartNext ==
    \E p \in Procs :
        \/ StartCheck(p) \/ StartCallShow(p) \/ StartRegister(p)
        \/ StartSetup(p) \/ StartDaemonEnds(p)

StartSpec == Init /\ [][StartNext]_vars

----------------------------------------------------------------------------
(* load_extension_via_cdp (mod.rs:402-479). A JSON object is written as    *)
(* its fields, one byte each: an optional "id:n" and one of "result",      *)
(* "error:m" (an error with a message), "error" (an error without one),    *)
(* "params" (an event); every message ends with the byte NUL.              *)

NUL == "NUL"
IdBytes == {"id:1", "id:2"}
BodyBytes == {"result", "error:m", "error", "params"}

\* what the browser may write
Responses == {<<"id:1", "result">>, <<"id:1", "error:m">>, <<"id:1", "error">>}
Unrelated == {<<"id:2", "params">>, <<"params">>, <<"id:2", "result">>,
              <<"id:2", "error:m">>}
Malformed == {<<"garbage">>, <<"id:1", "params">>}
Objects == Responses \cup Unrelated \cup Malformed

Min(a, b) == IF a < b THEN a ELSE b

\* serde_json::from_slice::<Value>(msg_bytes)  (mod.rs:450)
ParseJson(seg) ==
    IF Len(seg) = 1 /\ seg[1] \in BodyBytes
       THEN [valid |-> TRUE, id |-> "absent", body |-> seg[1]]
    ELSE IF Len(seg) = 2 /\ seg[1] \in IdBytes /\ seg[2] \in BodyBytes
       THEN [valid |-> TRUE, id |-> seg[1], body |-> seg[2]]
    ELSE [valid |-> FALSE, id |-> "absent", body |-> "none"]

\* the id is not compared
IsOurResponse_any_id(r) == r.valid

\* response.get("id") == Some(&json!(1))  (mod.rs:451)
IsOurResponse(r) == r.valid /\ r.id = "id:1"

\* an id:1 object with neither result nor error is taken for success
OutcomeOf_any_body_is_ok(body) ==
    CASE body = "error:m" -> [status |-> "cdp_failed", msg |-> "m"]
      [] body = "error"   -> [status |-> "cdp_failed", msg |-> "unknown"]
      [] OTHER            -> [status |-> "ok", msg |-> ""]

\* mod.rs:452-460
OutcomeOf(body) ==
    CASE body = "result"  -> [status |-> "ok", msg |-> ""]
      [] body = "error:m" -> [status |-> "cdp_failed", msg |-> "m"]
      [] body = "error"   -> [status |-> "cdp_failed", msg |-> "unknown"]
      [] OTHER            -> NoResult

\* accumulated.iter().position(|&b| b == 0x00)
FirstNul(acc) ==
    IF \E i \in 1..Len(acc) : acc[i] = NUL
       THEN CHOOSE i \in 1..Len(acc) :
               acc[i] = NUL /\ \A j \in 1..(i - 1) : acc[j] # NUL
       ELSE 0

\* the while-let loop over the NUL-delimited messages (mod.rs:448-466): the
\* value returned, if any, what stays accumulated, and the number of
\* messages passed over
RECURSIVE Drain(_)
Drain(acc) ==
    LET pos == FirstNul(acc) IN
    IF pos = 0
       THEN [ret |-> NoResult, acc |-> acc, n |-> 0]
       ELSE LET r == ParseJson(SubSeq(acc, 1, pos - 1)) IN
            IF IsOurResponse(r) /\ OutcomeOf(r.body).status # "none"
               THEN [ret |-> OutcomeOf(r.body), acc |-> acc, n |-> 0]
               ELSE LET d == Drain(SubSeq(acc, pos + 1, Len(acc)))
                    IN  [d EXCEPT !.n = @ + 1]

notCdpVars == <<daemonVars, supVars, osVars, qpc, chanVars, histVars,
                 subVars, startVars, extVars>>

\* the daemon's pipe ends made at mod.rs:318-334 and handed to the loader
\* (mod.rs:370-371)
DaemonFds == {"read_fd", "write_fd"}

\* the two Files are dropped as ordinary values when the loader returns
ReturnFromLoader_drops_files == daemon_fds' = {}

\* the loader returns: writer and reader are ManuallyDrop<File>, so no
\* destructor closes a descriptor (mod.rs:409-410)
ReturnFromLoader == daemon_fds' = daemon_fds

\* the request {"id":1,"method":"Extensions.loadUnpacked",...} (mod.rs:416-422)
LoadUnpacked == "id:1"

\* writer.write_all(&msg)?; writer.flush()?; ... deadline = now + 10 s
\* (mod.rs:416-441)
LoaderSend ==
    /\ cdp_pc = "send"
    /\ \/ /\ cdp_pc' = "read"
          /\ request_seen' = TRUE
          /\ cmd_pipe' = Append(cmd_pipe, LoadUnpacked)
          /\ UNCHANGED <<cdp_result, daemon_fds>>
       \/ /\ cdp_pc' = "done"
          /\ cdp_result' = [status |-> "io_error", msg |-> ""]
          /\ ReturnFromLoader
          /\ UNCHANGED <<request_seen, cmd_pipe>>
    /\ UNCHANGED <<accumulated, deadline_passed, skipped, pipe, pipe_open, wbuf,
                   answer, answer_at>>
    /\ UNCHANGED notCdpVars

\* one turn of the read loop (mod.rs:442-476)
LoaderRead ==
    /\ cdp_pc = "read"
    /\ IF pipe # <<>>
          THEN \* Ok(n)
               LET n == Min(Len(pipe), BUF_SIZE)
                   d == Drain(accumulated \o SubSeq(pipe, 1, n))
               IN  /\ pipe' = SubSeq(pipe, n + 1, Len(pipe))
                   /\ accumulated' = d.acc
                   /\ skipped' = (skipped \/ d.n > 0)
                   /\ answer_at' = IF answer_at = "in_pipe" /\ n = Len(pipe)
                                      THEN "read" ELSE answer_at
                   /\ IF d.ret.status # "none"
                         THEN cdp_pc' = "done" /\ cdp_result' = d.ret
                         ELSE UNCHANGED <<cdp_pc, cdp_result>>
          ELSE IF ~pipe_open
          THEN \* Ok(0): end of file
               /\ cdp_pc' = "done"
               /\ cdp_result' = [status |-> "pipe_closed", msg |-> ""]
               /\ UNCHANGED <<pipe, accumulated, answer_at, skipped>>
          ELSE \* WouldBlock
               /\ IF deadline_passed
                     THEN /\ cdp_pc' = "done"
                          /\ cdp_result' = [status |-> "timeout", msg |-> ""]
                     ELSE UNCHANGED <<cdp_pc, cdp_result>>
               /\ UNCHANGED <<pipe, accumulated, answer_at, skipped>>
    /\ IF cdp_pc' = "done" THEN ReturnFromLoader ELSE UNCHANGED daemon_fds
    /\ UNCHANGED <<deadline_passed, pipe_open, wbuf, request_seen, answer, cmd_pipe>>
    /\ UNCHANGED notCdpVars

\* Err(e) => return Err(e.into())  (mod.rs:474)
LoaderReadError ==
    /\ cdp_pc = "read"
    /\ cdp_pc' = "done"
    /\ cdp_result' = [status |-> "io_error", msg |-> ""]
    /\ ReturnFromLoader
    /\ UNCHANGED <<accumulated, deadline_passed, skipped, cmd_pipe, pipeVars>>
    /\ UNCHANGED notCdpVars

\* time passes the deadline set at mod.rs:441
DeadlinePasses ==
    /\ cdp_pc = "read" /\ ~deadline_passed
    /\ deadline_passed' = TRUE
    /\ UNCHANGED <<cdp_pc, cdp_result, accumulated, skipped, daemon_fds,
                   cmd_pipe, pipeVars>>
    /\ UNCHANGED notCdpVars

\* the browser starts to write a message; it answers the request once, and
\* only after the request reached it
BrowserBegin(obj) ==
    /\ cdp_pc # "done" /\ pipe_open /\ wbuf = <<>>
    /\ obj \in Responses => (request_seen /\ answer_at = "none")
    /\ wbuf' = obj \o <<NUL>>
    /\ IF obj \in Responses
          THEN answer' = OutcomeOf(obj[2]) /\ answer_at' = "writing"
          ELSE UNCHANGED <<answer, answer_at>>
    /\ UNCHANGED <<pipe, pipe_open, request_seen, cdpVars>>
    /\ UNCHANGED notCdpVars

\* the browser's write puts the next k bytes of the message into the pipe
BrowserWrite(k) ==
    /\ cdp_pc # "done" /\ pipe_open
    /\ k \in 1..Len(wbuf) /\ Len(pipe) + k <= PipeCap
    /\ pipe' = pipe \o SubSeq(wbuf, 1, k)
    /\ wbuf' = SubSeq(wbuf, k + 1, Len(wbuf))
    /\ answer_at' = IF answer_at = "writing" /\ k = Len(wbuf)
                       THEN "in_pipe" ELSE answer_at
    /\ UNCHANGED <<pipe_open, request_seen, answer, cdpVars>>
    /\ UNCHANGED notCdpVars

\* the browser exits: the write end of the pipe closes
BrowserExits ==
    /\ cdp_pc # "done" /\ pipe_open
    /\ pipe_open' = FALSE
    /\ wbuf' = <<>>
    /\ UNCHANGED <<pipe, request_seen, answer, answer_at, cdpVars>>
    /\ UNCHANGED notCdpVars

Loader == LoaderSend \/ LoaderRead

CdpNext ==
    \/ LoaderSend \/ LoaderRead \/ LoaderReadError
    \/ DeadlinePasses
    \/ \E obj \in Objects : BrowserBegin(obj)
    \/ \E k \in 1..PipeCap : BrowserWrite(k)
    \/ BrowserExits

\* The loader runs in its own blocking thread (mod.rs:370) and is scheduled;
\* time passes
CdpSpec ==
    /\ Init /\ [][CdpNext]_vars
    /\ WF_vars(Loader)
    /\ WF_vars(DeadlinePasses)

----------------------------------------------------------------------------
(* Native messaging wire format (messaging.rs:16-105): a 4-byte            *)
(* little-endian length and a JSON body.                                   *)
(*                                                                         *)
(* A stream is a sequence of items [n, v, s]: n bytes that belong          *)
(* together. A length byte is [1, value, "byte"]; a JSON token (a brace, a *)
(* key, a scalar) is [n, 0, token] with n the bytes it takes; "pad" is     *)
(* a run of JSON whitespace; "zero" is a run of 0x00 bytes; "part" is      *)
(* a piece of a token that was cut.                                        *)

Byte(b) == [n |-> 1, v |-> b, s |-> "byte"]
Run(k, what) == [n |-> k, v |-> 0, s |-> what]

\* scalars: strings are written s:..., numbers n:...
Atoms == {"s:ready", "s:badge_update", "s:notification", "s:window_hidden",
          "s:window_shown", "s:dnd_changed", "s:hide_window", "s:show_window",
          "s:ping", "s:mystery", "s:whatsapp", "s:hello", "s:big_max",
          "s:big_over", "n:3", "n:5", "true", "false", "null"}
Keys == {"type", "service", "count", "title", "body", "icon", "enabled"}

\* the bytes a token takes: two strings are long enough to make a body of
\* exactly the largest size, and of one byte more
TokenLen(t) ==
    CASE t = "s:big_max"  -> MAX_MESSAGE_SIZE
      [] t = "s:big_over" -> MAX_MESSAGE_SIZE + 1
      [] OTHER            -> 1

Sym(t) == [n |-> TokenLen(t), v |-> 0, s |-> t]

RECURSIVE ByteLen(_)
ByteLen(items) ==
    IF items = <<>> THEN 0 ELSE Head(items).n + ByteLen(Tail(items))

\* serde_json::Value: a scalar or an object (a function from keys to scalars)
NoFields == [k \in {} |-> ""]
AtomValue(a) == [kind |-> "atom", atom |-> a, fields |-> NoFields]
ObjValue(f) == [kind |-> "obj", atom |-> "", fields |-> f]
Null == AtomValue("null")

\* serde_json's Map writes its keys in sorted order
SortedKeys == <<"body", "count", "enabled", "icon", "service", "title", "type">>

RECURSIVE Emit(_, _)
Emit(f, order) ==
    IF order = <<>> THEN <<>>
    ELSE (IF Head(order) \in DOMAIN f
             THEN <<Sym(Head(order)), Sym(f[Head(order)])>>
             ELSE <<>>) \o Emit(f, Tail(order))

\* serde_json::to_vec(&Value)  (messaging.rs:67)
to_vec(value) ==
    IF value.kind = "atom"
       THEN <<Sym(value.atom)>>
       ELSE <<Sym("{")>> \o Emit(value.fields, SortedKeys) \o <<Sym("}")>>

\* serde_json::from_slice (messaging.rs:62, 91): whitespace is skipped, an
\* object is a brace, key and scalar pairs, a brace; a repeated key keeps its
\* last value
from_slice(items) ==
    LET toks == SelectSeq(items, LAMBDA it : it.s # "pad")
        n == Len(toks)
        whole == \A i \in 1..n : toks[i].n = TokenLen(toks[i].s)
        keyAt == {i \in 2..(n - 1) : i % 2 = 0}
    IN  IF whole /\ n = 1 /\ toks[1].s \in Atoms
           THEN [ok |-> TRUE, value |-> AtomValue(toks[1].s)]
        ELSE IF /\ whole /\ n >= 2 /\ n % 2 = 0
                /\ toks[1].s = "{" /\ toks[n].s = "}"
                /\ \A i \in keyAt : toks[i].s \in Keys /\ toks[i + 1].s \in Atoms
           THEN [ok |-> TRUE,
                 value |-> ObjValue(
                     [k \in {toks[i].s : i \in keyAt} |->
                         LET last == CHOOSE i \in keyAt :
                                        /\ toks[i].s = k
                                        /\ \A j \in keyAt : toks[j].s = k => j <= i
                         IN  toks[last + 1].s])]
        ELSE [ok |-> FALSE, value |-> Null]

\* ---- the typed messages (messaging.rs:17-42)

\* enum ExtensionMessage
ExtensionMessages ==
    {[variant |-> "Ready", args |-> ("service" :> "s:whatsapp")],
     [variant |-> "BadgeUpdate", args |-> ("count" :> "n:5")],
     [variant |-> "BadgeUpdate", args |-> ("count" :> "n:3")],
     [variant |-> "Notification",
      args |-> ("title" :> "s:hello" @@ "body" :> "s:hello" @@ "icon" :> "null")],
     [variant |-> "WindowHidden", args |-> NoFields],
     [variant |-> "WindowShown", args |-> NoFields]}

\* enum DaemonMessage
DaemonMessages ==
    {[variant |-> "DndChanged", args |-> ("enabled" :> "true")],
     [variant |-> "HideWindow", args |-> NoFields],
     [variant |-> "ShowWindow", args |-> NoFields],
     [variant |-> "Ping", args |-> NoFields]}

\* #[serde(tag = "type", rename_all = "snake_case")]
TagOf(variant) ==
    CASE variant = "Ready"        -> "s:ready"
      [] variant = "BadgeUpdate"  -> "s:badge_update"
      [] variant = "Notification" -> "s:notification"
      [] variant = "WindowHidden" -> "s:window_hidden"
      [] variant = "WindowShown"  -> "s:window_shown"
      [] variant = "DndChanged"   -> "s:dnd_changed"
      [] variant = "HideWindow"   -> "s:hide_window"
      [] variant = "ShowWindow"   -> "s:show_window"
      [] variant = "Ping"         -> "s:ping"

\* the fields of a variant in the order they are declared
FieldOrder(variant) ==
    CASE variant = "Ready"        -> <<"service">>
      [] variant = "BadgeUpdate"  -> <<"count">>
      [] variant = "Notification" -> <<"title", "body", "icon">>
      [] variant = "DndChanged"   -> <<"enabled">>
      [] OTHER                    -> <<>>

\* the kind of scalar a field takes
FieldAtoms(key) ==
    CASE key = "count"   -> {"n:3", "n:5"}
      [] key = "enabled" -> {"true", "false"}
      [] key = "icon"    -> {a \in Atoms : a = "null" \/ a \in {"s:whatsapp", "s:hello"}}
      [] OTHER           -> {a \in Atoms : a \notin {"n:3", "n:5", "true", "false", "null"}}

\* the scalar a field is read from: an Option field that is absent reads as
\* null
FieldValue(f, key) ==
    IF key \in DOMAIN f THEN f[key]
    ELSE IF key = "icon" THEN "null" ELSE "missing"

\* the JSON value of a typed message
to_value(m) == ObjValue(("type" :> TagOf(m.variant)) @@ m.args)

\* serde_json::to_vec(&DaemonMessage) (messaging.rs:99): the tag, then the
\* fields as declared
to_vec_typed(m) ==
    <<Sym("{"), Sym("type"), Sym(TagOf(m.variant))>>
        \o Emit(m.args, FieldOrder(m.variant)) \o <<Sym("}")>>

\* serde_json::from_value::<T>(value) for T one of the two enums, given as the
\* set of its variants' names (messaging.rs:173): the tag picks the variant,
\* its fields must be there with the right kind, other keys are ignored
from_value(value, variants) ==
    LET f == value.fields
        hits == {v \in variants :
                    /\ value.kind = "obj" /\ "type" \in DOMAIN f
                    /\ TagOf(v) = f["type"]
                    /\ \A i \in 1..Len(FieldOrder(v)) :
                          FieldValue(f, FieldOrder(v)[i])
                              \in FieldAtoms(FieldOrder(v)[i])}
    IN  IF hits = {}
           THEN [ok |-> FALSE, msg |-> [variant |-> "none", args |-> NoFields]]
           ELSE LET v == CHOOSE v \in hits : TRUE
                IN  [ok |-> TRUE,
                     msg |-> [variant |-> v,
                              args |-> [k \in {FieldOrder(v)[i] : i \in 1..Len(FieldOrder(v))}
                                           |-> FieldValue(f, k)]]]

ExtensionVariants == {m.variant : m \in ExtensionMessages}
DaemonVariants == {m.variant : m \in DaemonMessages}

\* ---- framing

\* big-endian instead of little-endian
to_le_bytes_big_endian(x) ==
    <<Byte((x \div 16777216) % 256), Byte((x \div 65536) % 256),
      Byte((x \div 256) % 256), Byte(x % 256)>>

\* (data.len() as u32).to_le_bytes(); the lengths of the model are far below
\* 2^32, where the cast would cut
to_le_bytes(x) ==
    <<Byte(x % 256), Byte((x \div 256) % 256),
      Byte((x \div 65536) % 256), Byte((x \div 16777216) % 256)>>

\* u32::from_le_bytes(len_buf)
from_le_bytes(b) ==
    b[1].v + 256 * b[2].v + 65536 * b[3].v + 16777216 * b[4].v

\* write_nm_message (messaging.rs:66-73)
write_nm_message(value) ==
    LET data == to_vec(value)
    IN  to_le_bytes(ByteLen(data)) \o data

\* the length is not written
write_nm_message_async_body_only(m) == to_vec_typed(m)

\* write_nm_message_async (messaging.rs:95-105)
write_nm_message_async(m) ==
    LET data == to_vec_typed(m)
    IN  to_le_bytes(ByteLen(data)) \o data

\* read_exact(k): the first k bytes of the stream, or a failure when the
\* stream ends before
RECURSIVE Take(_, _)
Take(st, k) ==
    IF k = 0 THEN [ok |-> TRUE, taken |-> <<>>, rest |-> st]
    ELSE IF st = <<>> THEN [ok |-> FALSE, taken |-> <<>>, rest |-> <<>>]
    ELSE LET h == Head(st) IN
         IF h.n <= k
            THEN LET r == Take(Tail(st), k - h.n)
                 IN  [ok |-> r.ok, taken |-> <<h>> \o r.taken, rest |-> r.rest]
            ELSE LET cut == IF h.s \in {"pad", "zero"} THEN h.s ELSE "part"
                 IN  [ok |-> TRUE,
                      taken |-> <<[n |-> k, v |-> 0, s |-> cut]>>,
                      rest |-> <<[n |-> h.n - k, v |-> 0, s |-> cut]>> \o Tail(st)]

\* the limit excludes the largest size
TooLarge_inclusive(len) == len >= MAX_MESSAGE_SIZE

\* if len > 1_048_576  (messaging.rs:55, 83)
TooLarge(len) == len > MAX_MESSAGE_SIZE

\* the body is read before the length is compared with the limit
read_nm_message_reads_first(st) ==
    LET h == Take(st, 4) IN
    IF ~h.ok
       THEN [status |-> "EofHeader", value |-> Null, rest |-> h.rest, body_read |-> 0]
       ELSE LET len == from_le_bytes(h.taken)
                b == Take(h.rest, len)
                p == from_slice(b.taken)
            IN  IF ~b.ok
                   THEN [status |-> "EofBody", value |-> Null, rest |-> b.rest,
                         body_read |-> ByteLen(b.taken)]
                ELSE IF TooLarge(len)
                   THEN [status |-> "TooLarge", value |-> Null, rest |-> b.rest,
                         body_read |-> len]
                ELSE [status |-> IF p.ok THEN "Ok" ELSE "BadJson",
                      value |-> p.value, rest |-> b.rest, body_read |-> len]

\* the body is read from the start of the frame, the header included
read_nm_message_rereads_header(st) ==
    LET h == Take(st, 4) IN
    IF ~h.ok
       THEN [status |-> "EofHeader", value |-> Null, rest |-> h.rest, body_read |-> 0]
       ELSE LET len == from_le_bytes(h.taken) IN
            IF TooLarge(len)
               THEN [status |-> "TooLarge", value |-> Null, rest |-> h.rest,
                     body_read |-> 0]
               ELSE LET b == Take(st, len)
                        p == from_slice(b.taken)
                    IN  IF ~b.ok
                           THEN [status |-> "EofBody", value |-> Null,
                                 rest |-> b.rest, body_read |-> ByteLen(b.taken)]
                           ELSE [status |-> IF p.ok THEN "Ok" ELSE "BadJson",
                                 value |-> p.value, rest |-> b.rest,
                                 body_read |-> len]

\* read_nm_message (messaging.rs:49-63): the value decoded or the error, the
\* stream after the call, and the number of body bytes read
read_nm_message(st) ==
    LET h == Take(st, 4) IN
    IF ~h.ok
       THEN [status |-> "EofHeader", value |-> Null, rest |-> h.rest, body_read |-> 0]
       ELSE LET len == from_le_bytes(h.taken) IN
            IF TooLarge(len)
               THEN [status |-> "TooLarge", value |-> Null, rest |-> h.rest,
                     body_read |-> 0]
               ELSE LET b == Take(h.rest, len)
                        p == from_slice(b.taken)
                    IN  IF ~b.ok
                           THEN [status |-> "EofBody", value |-> Null,
                                 rest |-> b.rest, body_read |-> ByteLen(b.taken)]
                           ELSE [status |-> IF p.ok THEN "Ok" ELSE "BadJson",
                                 value |-> p.value, rest |-> b.rest,
                                 body_read |-> len]

\* read_nm_message_async (messaging.rs:76-92)
read_nm_message_async(st) ==
    LET h == Take(st, 4) IN
    IF ~h.ok
       THEN [status |-> "EofHeader", value |-> Null, rest |-> h.rest, body_read |-> 0]
       ELSE LET len == from_le_bytes(h.taken) IN
            IF TooLarge(len)
               THEN [status |-> "TooLarge", value |-> Null, rest |-> h.rest,
                     body_read |-> 0]
               ELSE LET b == Take(h.rest, len)
                        p == from_slice(b.taken)
                    IN  IF ~b.ok
                           THEN [status |-> "EofBody", value |-> Null,
                                 rest |-> b.rest, body_read |-> ByteLen(b.taken)]
                           ELSE [status |-> IF p.ok THEN "Ok" ELSE "BadJson",
                                 value |-> p.value, rest |-> b.rest,
                                 body_read |-> len]

\* ---- a writer and a reader at the two ends of a stream

notCodecVars == <<daemonVars, supVars, osVars, qpc, chanVars, histVars,
                   subVars, startVars, cdpVars, pipeVars, relayVars, ifaceVars, bootVars, prefVars, procVars>>

NoMessage == [variant |-> "none", args |-> NoFields]

\* values passed to write_nm_message: the inbound messages as the relay
\* process forwards them, and two strings of MAX_MESSAGE_SIZE and
\* MAX_MESSAGE_SIZE + 1 bytes
JsonValues ==
    {to_value(m) : m \in {x \in ExtensionMessages : x.args # ("count" :> "n:3")}}
        \cup {AtomValue("s:big_max"), AtomValue("s:big_over")}

\* frames of a writer that is not this codec: a header and the bytes after it
RawFrames ==
    {[declared |-> 2000000, body |-> <<Run(100, "zero")>>],
     [declared |-> 100, body |-> <<Run(3, "zero")>>]}

Written(kind, value, msg, declared, bytes) ==
    /\ Len(frames) < MaxFrames /\ ~wire_closed
    /\ wire' = wire \o bytes
    /\ frames' = Append(frames, [kind |-> kind, value |-> value, msg |-> msg,
                                 declared |-> declared, bytes |-> bytes])
    /\ UNCHANGED <<wire_closed, decoded>>
    /\ UNCHANGED notCodecVars

WriteValue(value) ==
    /\ value \in JsonValues
    /\ Written("value", value, NoMessage, ByteLen(to_vec(value)),
               write_nm_message(value))

WriteTyped(m) ==
    /\ m \in DaemonMessages
    /\ Written("typed", to_value(m), m, ByteLen(to_vec_typed(m)),
               write_nm_message_async(m))

WriteRaw(f) ==
    /\ f \in RawFrames
    /\ Written("raw", Null, NoMessage, f.declared,
               to_le_bytes(f.declared) \o f.body)

\* the writer closes its end
CloseWire ==
    /\ ~wire_closed
    /\ wire_closed' = TRUE
    /\ UNCHANGED <<wire, frames, decoded>>
    /\ UNCHANGED notCodecVars

Outcome(r) == [status |-> r.status, value |-> r.value, body_read |-> r.body_read]

\* the next frame is decoded, by both decoders; a read that needs bytes that
\* are not there yet waits for them or for the end of the stream; the reader
\* stops at its first error
ReadFrame ==
    /\ IF decoded = <<>> THEN TRUE ELSE decoded[Len(decoded)].sync.status = "Ok"
    /\ LET rs == read_nm_message(wire)
           ra == read_nm_message_async(wire)
       IN  /\ IF wire_closed THEN TRUE ELSE rs.status \notin {"EofHeader", "EofBody"}
           /\ decoded' = Append(decoded, [sync |-> Outcome(rs), async |-> Outcome(ra)])
           /\ \E r \in {rs, ra} : wire' = r.rest
    /\ UNCHANGED <<wire_closed, frames>>
    /\ UNCHANGED notCodecVars

CodecNext ==
    \/ \E value \in JsonValues : WriteValue(value)
    \/ \E m \in DaemonMessages : WriteTyped(m)
    \/ \E f \in RawFrames : WriteRaw(f)
    \/ CloseWire
    \/ ReadFrame

CodecSpec == Init /\ [][CodecNext]_vars

----------------------------------------------------------------------------
(* The relay server and one connection (messaging.rs:130-215). The peer    *)
(* (the relay process) connects and may write at once; the server accepts  *)
(* the connection later and subscribes it then.                            *)

\* frames the peer writes with write_nm_message (messaging.rs:247, 262), and
\* a frame with a header over the limit; a connection is made once
FrameOfValue(value) ==
    [kind |-> "value", value |-> value, msg |-> NoMessage,
     declared |-> ByteLen(to_vec(value)), bytes |-> write_nm_message(value)]

PeerFrames ==
    {FrameOfValue(to_value(m)) :
        m \in {x \in ExtensionMessages :
                  x.variant \in {"Ready", "BadgeUpdate", "WindowHidden"}}}
        \cup {FrameOfValue(ObjValue("type" :> "s:mystery"))}
        \cup {[kind |-> "raw", value |-> Null, msg |-> NoMessage, declared |-> 2000000,
               bytes |-> to_le_bytes(2000000) \o <<Run(100, "zero")>>]}

\* the commands of the channel as messages
CommandMessage(name) == [variant |-> name, args |-> NoFields]

\* count: u32
CountOf(atom) == CASE atom = "n:3" -> 3 [] atom = "n:5" -> 5 [] OTHER -> 0

\* UnixStream::connect of the peer (messaging.rs:243): the connection waits
\* in the listener's queue
Connect(s) ==
    /\ sub' = [sub EXCEPT ![s] = "pending"]
    /\ wire' = <<>>
    /\ wire_closed' = FALSE
    /\ conn_out' = [conn_out EXCEPT ![s] = <<>>]
    /\ readyAt' = -1
    /\ UNCHANGED <<cursor, rcvd, lagged, missed, subAt>>
    /\ UNCHANGED <<frames, decoded, badge_count, processed, conn_err>>
    /\ UNCHANGED <<daemonVars, supVars, osVars, qpc, chanVars, histVars,
                   startVars, cdpVars, pipeVars, ifaceVars, bootVars, prefVars, procVars>>

\* the first connection of a relay process
PeerConnects(s) ==
    /\ sub[s] = "none"
    /\ Connect(s)

\* a new relay process, which has a frame to send, connects after the
\* connection of an earlier one ended
PeerReconnects(s) ==
    /\ sub[s] = "closed" /\ Len(frames) < MaxInbound
    /\ Connect(s)

\* the peer writes a frame to the socket
PeerSends(s, f) ==
    /\ sub[s] \in {"pending", "open"} /\ ~wire_closed
    /\ Len(frames) < MaxInbound
    /\ wire' = wire \o f.bytes
    /\ frames' = Append(frames, f)
    /\ readyAt' = IF readyAt = -1 /\ f.value = to_value([variant |-> "Ready",
                                          args |-> ("service" :> "s:whatsapp")])
                     THEN sent ELSE readyAt
    /\ UNCHANGED <<wire_closed, decoded, badge_count, conn_out, processed, conn_err>>
    /\ UNCHANGED <<daemonVars, supVars, osVars, qpc, chanVars, histVars,
                   subVars, startVars, cdpVars, pipeVars, ifaceVars, bootVars, prefVars, procVars>>

\* the peer closes the socket
PeerCloses(s) ==
    /\ sub[s] \in {"pending", "open"} /\ ~wire_closed
    /\ wire_closed' = TRUE
    /\ UNCHANGED <<wire, frames, decoded, relayVars>>
    /\ UNCHANGED <<daemonVars, supVars, osVars, qpc, chanVars, histVars,
                   subVars, startVars, cdpVars, pipeVars, ifaceVars, bootVars, prefVars, procVars>>

\* listener.accept() and cmd_tx.subscribe() for a connection that waits
\* (messaging.rs:149-151)
ServerAccepts(s) ==
    /\ sub[s] = "pending"
    /\ Accept(s)

\* the count is added to the badge
StoreBadge_adds(atom) == badge_count' = badge_count + CountOf(atom)

\* state.badge_count.store(count)  (messaging.rs:179)
StoreBadge(atom) == badge_count' = CountOf(atom)

\* a frame that is none of the three state-changing ones resets the badge
Dispatch_other_resets_badge(t) ==
    CASE t.ok /\ t.msg.variant = "BadgeUpdate" ->
            /\ StoreBadge(t.msg.args["count"])
            /\ UNCHANGED <<visible, lastCall, lastWriter>>
      [] t.ok /\ t.msg.variant = "WindowHidden" ->
            /\ visible' = FALSE
            /\ lastCall' = "window_hidden" /\ lastWriter' = "window_hidden"
            /\ UNCHANGED badge_count
      [] t.ok /\ t.msg.variant = "WindowShown" ->
            /\ visible' = TRUE
            /\ lastCall' = "window_shown" /\ lastWriter' = "window_shown"
            /\ UNCHANGED badge_count
      [] OTHER -> /\ badge_count' = 0
                  /\ UNCHANGED <<visible, lastCall, lastWriter>>

\* the match on the decoded frame (messaging.rs:173-197)
Dispatch(t) ==
    CASE t.ok /\ t.msg.variant = "BadgeUpdate" ->
            /\ StoreBadge(t.msg.args["count"])
            /\ UNCHANGED <<visible, lastCall, lastWriter>>
      [] t.ok /\ t.msg.variant = "WindowHidden" ->
            /\ visible' = FALSE
            /\ lastCall' = "window_hidden" /\ lastWriter' = "window_hidden"
            /\ UNCHANGED badge_count
      [] t.ok /\ t.msg.variant = "WindowShown" ->
            /\ visible' = TRUE
            /\ lastCall' = "window_shown" /\ lastWriter' = "window_shown"
            /\ UNCHANGED badge_count
      [] OTHER -> UNCHANGED <<badge_count, visible, lastCall, lastWriter>>

\* a failed read also clears the badge
ReadFailed_clears_badge(s, why) ==
    /\ sub' = [sub EXCEPT ![s] = "closed"]
    /\ conn_err' = why
    /\ badge_count' = 0
    /\ UNCHANGED visible

\* let value = msg?  (messaging.rs:172): the error is returned to the task of
\* the connection, which logs it (messaging.rs:153-157)
ReadFailed(s, why) ==
    /\ sub' = [sub EXCEPT ![s] = "closed"]
    /\ conn_err' = why
    /\ UNCHANGED <<badge_count, visible>>

\* the read arm of handle_relay_connection (messaging.rs:171-198): a frame is
\* decoded and dispatched; a decoding error ends the connection
RelayRead(s) ==
    /\ sub[s] = "open"
    /\ LET r == read_nm_message_async(wire) IN
          /\ IF wire_closed THEN TRUE ELSE r.status \notin {"EofHeader", "EofBody"}
          /\ wire' = r.rest
          /\ IF r.status = "Ok"
                THEN LET t == from_value(r.value, ExtensionVariants) IN
                     /\ processed' = Append(processed, t)
                     /\ Dispatch(t)
                     /\ UNCHANGED <<sub, conn_err>>
                ELSE /\ ReadFailed(s, r.status)
                     /\ UNCHANGED <<processed, lastCall, lastWriter>>
    /\ UNCHANGED <<wire_closed, frames, decoded, conn_out, readyAt>>
    /\ UNCHANGED <<cursor, rcvd, lagged, missed, subAt>>
    /\ UNCHANGED <<quit_requested, chrome_pid, pid_lock, show_signal>>
    /\ UNCHANGED <<ncalls, nquits, wakes, resumes>>
    /\ UNCHANGED <<supVars, osVars, qpc, chanVars, startVars, cdpVars, pipeVars, ifaceVars, bootVars, prefVars, procVars>>

\* the cmd_rx.recv() arm of handle_relay_connection with the bytes it writes
\* (messaging.rs:199-211, 95-105)
RelayForward(s) ==
    /\ sub[s] = "open" /\ cursor[s] <= sent
    /\ LET r == RecvResult(s) IN
          IF r.kind = "Lagged"
             THEN OnLagged(s, r) /\ UNCHANGED <<conn_out, conn_err>>
             ELSE \E written \in BOOLEAN :
                     /\ RelayOnOk(s, r, written)
                     /\ conn_out' = IF written
                           THEN [conn_out EXCEPT ![s] =
                                    @ \o write_nm_message_async(CommandMessage(r.msg))]
                           ELSE conn_out
                     /\ conn_err' = IF written THEN conn_err ELSE "WriteIo"
    /\ UNCHANGED <<codecVars, badge_count, processed, readyAt>>
    /\ UNCHANGED <<daemonVars, supVars, osVars, qpc, chanVars, histVars,
                   startVars, cdpVars, pipeVars, ifaceVars, bootVars, prefVars, procVars>>

\* GetStatus().badge_count (dbus.rs:49, mod.rs:53-55)
GetStatusBadge == badge_count

RelayNext ==
    \/ Toggle
    \/ \E s \in RelayConns :
          \/ PeerConnects(s) \/ PeerCloses(s)
          \/ \E f \in PeerFrames : PeerSends(s, f)
          \/ ServerAccepts(s) \/ RelayRead(s) \/ RelayForward(s)

RelaySpec == Init /\ [][RelayNext]_vars

(* Fair scheduling: every task of the runtime that can step eventually     *)
(* does; a request_quit that started runs to its end; a browser that was   *)
(* sent SIGTERM exits. The user and the callers of the Control Interface   *)
(* are under no obligation to act.                                         *)
FairSpec ==
    /\ Spec
    /\ WF_vars(Supervisor)
    /\ \A c \in QuitCallers : WF_vars(QuitSignal(c) \/ QuitNotify(c))
    /\ WF_vars(BrowserTerminated)

----------------------------------------------------------------------------
(* Toggle at the granularity of its load and its call, running against    *)
(* the other writers of visible (the supervisor's stores and the relay's   *)
(* window frames), with subscribers of the command channel and a           *)
(* supervisor that may be waiting for a show.                              *)

ToggleNext ==
    \/ ToggleLoad \/ ToggleAct
    \/ RelayWindowHidden \/ RelayWindowShown
    \/ Supervisor
    \/ BrowserClosed
    \/ \E s \in Subs : Accept(s)

ToggleSpec == Init /\ [][ToggleNext]_vars

----------------------------------------------------------------------------
(* run from the construction of the shared state to the supervisor loop    *)
(* (mod.rs:109-234), with the socket server task it spawns                 *)
(* (messaging.rs:130-146), for one daemon process.                         *)

notBootVars == <<daemonVars, supVars, osVars, qpc, chanVars, histVars,
                 subVars, startVars, cdpVars, pipeVars, codecVars, relayVars,
                 ifaceVars, prefVars, procVars>>

\* let retry_delays = [0, 2, 4, 8, 16]  (mod.rs:142)
retry_delays == <<0, 2, 4, 8, 16>>

\* the process of the daemon has not ended
BootAlive == boot_pc \notin {"exit_ok", "exit_err"}

\* Arc::new(DaemonState::new(service_config.do_not_disturb, minimized))
\* (mod.rs:110, 35-47)
BootNewState ==
    /\ boot_pc = "new_state"
    /\ \E minimized \in BOOLEAN : start_minimized' = minimized
    /\ boot_pc' = "register"
    /\ UNCHANGED <<tray_log, listener>>
    /\ UNCHANGED notBootVars

\* dbus::register(..).await.context(..)?  (mod.rs:113-120)
BootRegister ==
    /\ boot_pc = "register"
    /\ \E ok \in BOOLEAN : boot_pc' = IF ok THEN "detect" ELSE "exit_err"
    /\ UNCHANGED <<tray_log, listener, start_minimized>>
    /\ UNCHANGED notBootVars

\* chrome::detect_chrome(&global_config)?  (mod.rs:123)
BootDetect ==
    /\ boot_pc = "detect"
    /\ \E ok \in BOOLEAN : boot_pc' = IF ok THEN "tray" ELSE "exit_err"
    /\ UNCHANGED <<tray_log, listener, start_minimized>>
    /\ UNCHANGED notBootVars

\* the failure of the last attempt is only logged
AfterTrayFailure_goes_on(attempt) ==
    IF attempt = Len(retry_delays) THEN "spawn_server" ELSE "tray"

\* if attempt == retry_delays.len() - 1 { return Err(..) }  (mod.rs:168-171);
\* attempt counts from 1 here
AfterTrayFailure(attempt) ==
    IF attempt = Len(retry_delays) THEN "exit_err" ELSE "tray"

\* one iteration of the retry loop (mod.rs:143-175): the sleep of delay_secs
\* when it is positive, then tray::spawn_tray
BootTrayAttempt ==
    /\ boot_pc = "tray"
    /\ LET attempt == Len(tray_log) + 1
           delay_secs == retry_delays[attempt]
       IN  \E ok \in BOOLEAN :
              /\ tray_log' = Append(tray_log, [delay |-> delay_secs, ok |-> ok])
              /\ boot_pc' = IF ok THEN "spawn_server" ELSE AfterTrayFailure(attempt)
    /\ UNCHANGED <<listener, start_minimized>>
    /\ UNCHANGED notBootVars

\* tokio::spawn(messaging::start_socket_server(..))  (mod.rs:178-183): the
\* JoinHandle is dropped
BootSpawnServer ==
    /\ boot_pc = "spawn_server"
    /\ listener' = "starting"
    /\ boot_pc' = "subscribe_gnome"
    /\ UNCHANGED <<tray_log, start_minimized>>
    /\ UNCHANGED notBootVars

\* let mut cmd_rx = state.cmd_tx.subscribe(); tokio::spawn(..)  (mod.rs:186-213)
BootSubscribeGnome ==
    /\ boot_pc = "subscribe_gnome"
    /\ sub' = [sub EXCEPT !["gnome"] = "open"]
    /\ cursor' = [cursor EXCEPT !["gnome"] = sent + 1]
    /\ subAt' = [subAt EXCEPT !["gnome"] = sent]
    /\ boot_pc' = "signals"
    /\ UNCHANGED <<rcvd, lagged, missed>>
    /\ UNCHANGED <<tray_log, listener, start_minimized>>
    /\ UNCHANGED <<daemonVars, supVars, osVars, qpc, chanVars, histVars,
                   startVars, cdpVars, pipeVars, codecVars, relayVars, ifaceVars,
                   prefVars, procVars>>

\* the signal task is spawned  (mod.rs:216-230)
BootSignals ==
    /\ boot_pc = "signals"
    /\ boot_pc' = "run_loop"
    /\ UNCHANGED <<tray_log, listener, start_minimized>>
    /\ UNCHANGED notBootVars

\* manager.run_loop().await  (mod.rs:233-234)
BootSupervisor ==
    /\ boot_pc = "run_loop"
    /\ Supervisor

\* run_loop returned and run returns its result
BootRunLoopReturns ==
    /\ boot_pc = "run_loop" /\ sup_pc \in {"terminated", "failed"}
    /\ boot_pc' = IF sup_pc = "terminated" THEN "exit_ok" ELSE "exit_err"
    /\ UNCHANGED <<tray_log, listener, start_minimized>>
    /\ UNCHANGED notBootVars

\* start_socket_server up to its accept loop (messaging.rs:135-146):
\* create_dir_all(..)? and UnixListener::bind(..)? return the error to the
\* task, whose result nobody awaits
ServerBind ==
    /\ BootAlive /\ listener = "starting"
    /\ \E ok \in BOOLEAN : listener' = IF ok THEN "listening" ELSE "failed"
    /\ UNCHANGED <<boot_pc, tray_log, start_minimized>>
    /\ UNCHANGED notBootVars

\* a Show call on the registered Control Interface
BootShow ==
    /\ BootAlive /\ boot_pc \notin {"new_state", "register"}
    /\ Show

\* a window_shown frame of the extension, which runs in the browser and
\* reaches the daemon through the socket
BootWindowShown ==
    /\ BootAlive /\ listener = "listening" /\ child = "alive"
    /\ RelayWindowShown

\* SIGTERM or SIGINT reaches the signal task (mod.rs:223-229)
BootQuit ==
    /\ boot_pc = "run_loop"
    /\ QuitStore("signal") \/ QuitSignal("signal") \/ QuitNotify("signal")

BootBrowserEnds ==
    /\ BootAlive
    /\ BrowserClosed \/ BrowserTerminated

BootNext ==
    \/ BootNewState \/ BootRegister \/ BootDetect \/ BootTrayAttempt
    \/ BootSpawnServer \/ BootSubscribeGnome \/ BootSignals
    \/ BootSupervisor \/ BootRunLoopReturns
    \/ ServerBind
    \/ BootShow \/ BootWindowShown \/ BootQuit \/ BootBrowserEnds

BootSpec == Init /\ [][BootNext]_vars

----------------------------------------------------------------------------
(* Failures of a relay connection (messaging.rs:148-158, 169-173): a       *)
(* connection that meets every kind of inbound frame and of failure, new   *)
(* connections after it ended, and a second connection next to it.         *)

\* frames a peer may write: a badge update, a body that is not JSON, a
\* declared length above the limit
FaultFrames ==
    {FrameOfValue(to_value([variant |-> "BadgeUpdate", args |-> ("count" :> "n:5")]))}
        \cup {[kind |-> "raw", value |-> Null, msg |-> NoMessage, declared |-> 1,
               bytes |-> to_le_bytes(1) \o <<Sym("}")>>]}
        \cup {[kind |-> "raw", value |-> Null, msg |-> NoMessage, declared |-> 2000000,
               bytes |-> to_le_bytes(2000000) \o <<Run(100, "zero")>>]}

\* the read of the socket returns an I/O error (messaging.rs:171-172)
RelayReadFails(s) ==
    /\ sub[s] = "open"
    /\ ReadFailed(s, "Io")
    /\ UNCHANGED <<codecVars, conn_out, processed, readyAt>>
    /\ UNCHANGED <<cursor, rcvd, lagged, missed, subAt>>
    /\ UNCHANGED <<quit_requested, chrome_pid, pid_lock, show_signal>>
    /\ UNCHANGED <<supVars, osVars, qpc, chanVars, histVars,
                   startVars, cdpVars, pipeVars, ifaceVars, bootVars, prefVars, procVars>>

\* Toggle calls of the connection-failure specification
ConnToggle ==
    /\ sent < MaxCommands
    /\ ToggleCall

\* the second connection is accepted
OtherAccepts(o) ==
    /\ sub[o] = "none"
    /\ Accept(o)

ConnNext ==
    \/ ConnToggle
    \/ \E s \in RelayConns :
          \/ PeerConnects(s) \/ PeerReconnects(s) \/ PeerCloses(s)
          \/ \E f \in FaultFrames : PeerSends(s, f)
          \/ ServerAccepts(s) \/ RelayRead(s) \/ RelayReadFails(s)
          \/ RelayForward(s)
    \/ \E o \in OtherConns : OtherAccepts(o) \/ RelayRecv(o)

ConnSpec == Init /\ [][ConnNext]_vars

----------------------------------------------------------------------------
(* A relay connection whose peer sends the frames the daemon has no use    *)
(* for, and a badge update                                                 *)

IgnoredFrames ==
    {FrameOfValue(to_value(m)) :
        m \in {x \in ExtensionMessages :
                  /\ x.variant \in {"Ready", "Notification", "BadgeUpdate"}
                  /\ x.variant = "BadgeUpdate" => x.args["count"] = "n:5"}}
        \cup {FrameOfValue(ObjValue("type" :> "s:mystery"))}

IgnoreNext ==
    \/ ConnToggle
    \/ \E s \in RelayConns :
          \/ PeerConnects(s) \/ PeerCloses(s)
          \/ \E f \in IgnoredFrames : PeerSends(s, f)
          \/ ServerAccepts(s) \/ RelayRead(s) \/ RelayForward(s)

IgnoreSpec == Init /\ [][IgnoreNext]_vars

----------------------------------------------------------------------------
(* The relay process (run_relay, messaging.rs:223-289). The browser writes *)
(* frames to the process's standard input and reads its standard output;   *)
(* the daemon is at the other end of the socket.                           *)

notProcVars == <<daemonVars, supVars, osVars, qpc, chanVars, histVars,
                  subVars, startVars, cdpVars, pipeVars, codecVars, relayVars,
                  ifaceVars, bootVars, prefVars>>

\* a JSON string (Value::as_str gives Some)
IsString(a) == a \in Atoms /\ a \notin {"n:3", "n:5", "true", "false", "null"}

\* the kind of the field is not looked at
HasService_any_type(value) ==
    value.kind = "obj" /\ "service" \in DOMAIN value.fields

\* first_msg.get("service").and_then(|v| v.as_str())  (messaging.rs:233-236)
HasService(value) ==
    /\ value.kind = "obj" /\ "service" \in DOMAIN value.fields
    /\ IsString(value.fields["service"])

Framed(body) == to_le_bytes(ByteLen(body)) \o body

\* frames the browser writes to stdin: the extension's messages with their
\* keys in the order the extension gives them, a frame whose service is a
\* number, a body that is not JSON and a header over the limit
BrowserFrames ==
    {Framed(<<Sym("{"), Sym("type"), Sym("s:ready"),
              Sym("service"), Sym("s:whatsapp"), Sym("}")>>),
     Framed(<<Sym("{"), Sym("type"), Sym("s:badge_update"),
              Sym("count"), Sym("n:5"), Sym("}")>>),
     Framed(<<Sym("{"), Sym("type"), Sym("s:window_shown"), Sym("}")>>),
     Framed(<<Sym("{"), Sym("service"), Sym("n:5"), Sym("}")>>),
     to_le_bytes(1) \o <<Sym("}")>>,
     to_le_bytes(2000000) \o <<Run(100, "zero")>>}

\* frames the daemon writes to the connection (messaging.rs:202)
DaemonFrames ==
    {write_nm_message_async(m) :
        m \in {x \in DaemonMessages : x.variant \in {"DndChanged", "ShowWindow"}}}

RpAlive == rp_pc \notin {"exit_ok", "exit_err"}

\* frames written to the process in a run, from both sides
RpFrames == Len(browser_sent) + Len(daemon_sent)

BrowserWrites(f) ==
    /\ RpAlive /\ ~stdin_closed /\ RpFrames < MaxFrames
    /\ rp_stdin' = rp_stdin \o f
    /\ browser_sent' = Append(browser_sent, f)
    /\ UNCHANGED <<at_end, rp_pc, first_msg, rp_connected, t1, t2, stdin_closed,
                   stdout_closed, sock_in, sock_closed, sock_out, rp_stdout,
                   daemon_sent, stdin_read>>
    /\ UNCHANGED notProcVars

BrowserClosesStdin ==
    /\ RpAlive /\ ~stdin_closed
    /\ stdin_closed' = TRUE
    /\ UNCHANGED <<at_end, rp_pc, first_msg, rp_connected, t1, t2, rp_stdin,
                   stdout_closed, sock_in, sock_closed, sock_out, rp_stdout,
                   browser_sent, daemon_sent, stdin_read>>
    /\ UNCHANGED notProcVars

BrowserClosesStdout ==
    /\ RpAlive /\ ~stdout_closed
    /\ stdout_closed' = TRUE
    /\ UNCHANGED <<at_end, rp_pc, first_msg, rp_connected, t1, t2, rp_stdin,
                   stdin_closed, sock_in, sock_closed, sock_out, rp_stdout,
                   browser_sent, daemon_sent, stdin_read>>
    /\ UNCHANGED notProcVars

DaemonWrites(f) ==
    /\ RpAlive /\ rp_connected /\ ~sock_closed
    /\ RpFrames < MaxFrames
    /\ sock_in' = sock_in \o f
    /\ daemon_sent' = Append(daemon_sent, f)
    /\ UNCHANGED <<at_end, rp_pc, first_msg, rp_connected, t1, t2, rp_stdin,
                   stdin_closed, stdout_closed, sock_closed, sock_out,
                   rp_stdout, browser_sent, stdin_read>>
    /\ UNCHANGED notProcVars

DaemonCloses ==
    /\ RpAlive /\ rp_connected /\ ~sock_closed
    /\ sock_closed' = TRUE
    /\ UNCHANGED <<at_end, rp_pc, first_msg, rp_connected, t1, t2, rp_stdin,
                   stdin_closed, stdout_closed, sock_in, sock_out, rp_stdout,
                   browser_sent, daemon_sent, stdin_read>>
    /\ UNCHANGED notProcVars

\* a blocking read returns when the frame is there or the stream has ended
CanRead(st, closed) ==
    closed \/ read_nm_message(st).status \notin {"EofHeader", "EofBody"}

\* messaging.rs:226-237: the first frame and its service field
RpReadFirst ==
    /\ rp_pc = "read_first"
    /\ CanRead(rp_stdin, stdin_closed)
    /\ LET r == read_nm_message(rp_stdin) IN
       /\ rp_stdin' = r.rest
       /\ stdin_read' = stdin_read + (ByteLen(rp_stdin) - ByteLen(r.rest))
       /\ first_msg' = IF r.status = "Ok" THEN r.value ELSE first_msg
       /\ rp_pc' = IF r.status = "Ok" /\ HasService(r.value)
                      THEN "connect" ELSE "exit_err"
    /\ UNCHANGED <<at_end, rp_connected, t1, t2, stdin_closed, stdout_closed, sock_in,
                   sock_closed, sock_out, rp_stdout, browser_sent, daemon_sent>>
    /\ UNCHANGED notProcVars

\* messaging.rs:242-244: the daemon's socket may not be there
RpConnect ==
    /\ rp_pc = "connect"
    /\ \E ok \in BOOLEAN :
          /\ rp_connected' = ok
          /\ rp_pc' = IF ok THEN "write_first" ELSE "exit_err"
    /\ UNCHANGED <<at_end, first_msg, t1, t2, rp_stdin, stdin_closed, stdout_closed,
                   sock_in, sock_closed, sock_out, rp_stdout, browser_sent,
                   daemon_sent, stdin_read>>
    /\ UNCHANGED notProcVars

\* the first frame is not forwarded
RpForwardFirst_skipped ==
    /\ rp_pc = "write_first"
    /\ rp_pc' = IF sock_closed THEN "exit_err" ELSE "clone"
    /\ UNCHANGED <<at_end, first_msg, rp_connected, t1, t2, rp_stdin, stdin_closed,
                   stdout_closed, sock_in, sock_closed, sock_out, rp_stdout,
                   browser_sent, daemon_sent, stdin_read>>
    /\ UNCHANGED notProcVars

\* messaging.rs:247: write_nm_message(&mut socket, &first_msg)?
RpForwardFirst ==
    /\ rp_pc = "write_first"
    /\ IF sock_closed
          THEN rp_pc' = "exit_err" /\ UNCHANGED sock_out
          ELSE /\ rp_pc' = "clone"
               /\ sock_out' = Append(sock_out, write_nm_message(first_msg))
    /\ UNCHANGED <<at_end, first_msg, rp_connected, t1, t2, rp_stdin, stdin_closed,
                   stdout_closed, sock_in, sock_closed, rp_stdout,
                   browser_sent, daemon_sent, stdin_read>>
    /\ UNCHANGED notProcVars

\* messaging.rs:252-284: try_clone, then the two threads are started
RpSpawnThreads ==
    /\ rp_pc = "clone"
    /\ \E ok \in BOOLEAN :
          IF ok THEN rp_pc' = "join_t1" /\ t1' = "running" /\ t2' = "running"
                ELSE rp_pc' = "exit_err" /\ UNCHANGED <<t1, t2>>
    /\ UNCHANGED <<at_end, first_msg, rp_connected, rp_stdin, stdin_closed,
                   stdout_closed, sock_in, sock_closed, sock_out, rp_stdout,
                   browser_sent, daemon_sent, stdin_read>>
    /\ UNCHANGED notProcVars

\* messaging.rs:256-269: one turn of the stdin -> socket loop
T1Step ==
    /\ t1 = "running"
    /\ CanRead(rp_stdin, stdin_closed)
    /\ LET r == read_nm_message(rp_stdin) IN
       /\ rp_stdin' = r.rest
       /\ stdin_read' = stdin_read + (ByteLen(rp_stdin) - ByteLen(r.rest))
       /\ IF r.status = "Ok" /\ ~sock_closed
             THEN /\ sock_out' = Append(sock_out, write_nm_message(r.value))
                  /\ UNCHANGED t1
             ELSE t1' = "ended" /\ UNCHANGED sock_out
       /\ at_end' = IF r.status = "Ok" /\ ~sock_closed THEN at_end
                     ELSE [at_end EXCEPT !["t1"] = Len(rp_stdout)]
    /\ UNCHANGED <<rp_pc, first_msg, rp_connected, t2, stdin_closed,
                   stdout_closed, sock_in, sock_closed, rp_stdout,
                   browser_sent, daemon_sent>>
    /\ UNCHANGED notProcVars

\* messaging.rs:271-284: one turn of the socket -> stdout loop
T2Step ==
    /\ t2 = "running"
    /\ CanRead(sock_in, sock_closed)
    /\ LET r == read_nm_message(sock_in) IN
       /\ sock_in' = r.rest
       /\ IF r.status = "Ok" /\ ~stdout_closed
             THEN /\ rp_stdout' = Append(rp_stdout, write_nm_message(r.value))
                  /\ UNCHANGED t2
             ELSE t2' = "ended" /\ UNCHANGED rp_stdout
       /\ at_end' = IF r.status = "Ok" /\ ~stdout_closed THEN at_end
                     ELSE [at_end EXCEPT !["t2"] = Len(sock_out)]
    /\ UNCHANGED <<rp_pc, first_msg, rp_connected, t1, rp_stdin, stdin_closed,
                   stdout_closed, sock_closed, sock_out, browser_sent,
                   daemon_sent, stdin_read>>
    /\ UNCHANGED notProcVars

\* messaging.rs:286: t1.join().ok()
RpJoinT1 ==
    /\ rp_pc = "join_t1" /\ t1 = "ended"
    /\ rp_pc' = "join_t2"
    /\ UNCHANGED <<at_end, first_msg, rp_connected, t1, t2, rp_stdin, stdin_closed,
                   stdout_closed, sock_in, sock_closed, sock_out, rp_stdout,
                   browser_sent, daemon_sent, stdin_read>>
    /\ UNCHANGED notProcVars

\* the second thread is not waited for
RpJoinT2_no_wait ==
    /\ rp_pc = "join_t2"
    /\ rp_pc' = "exit_ok"
    /\ UNCHANGED <<at_end, first_msg, rp_connected, t1, t2, rp_stdin, stdin_closed,
                   stdout_closed, sock_in, sock_closed, sock_out, rp_stdout,
                   browser_sent, daemon_sent, stdin_read>>
    /\ UNCHANGED notProcVars

\* messaging.rs:287-288: t2.join().ok(); Ok(())
RpJoinT2 ==
    /\ rp_pc = "join_t2" /\ t2 = "ended"
    /\ rp_pc' = "exit_ok"
    /\ UNCHANGED <<at_end, first_msg, rp_connected, t1, t2, rp_stdin, stdin_closed,
                   stdout_closed, sock_in, sock_closed, sock_out, rp_stdout,
                   browser_sent, daemon_sent, stdin_read>>
    /\ UNCHANGED notProcVars

ProcNext ==
    \/ \E f \in BrowserFrames : BrowserWrites(f)
    \/ BrowserClosesStdin \/ BrowserClosesStdout
    \/ \E f \in DaemonFrames : DaemonWrites(f)
    \/ DaemonCloses
    \/ RpReadFirst \/ RpConnect \/ RpForwardFirst \/ RpSpawnThreads
    \/ T1Step \/ T2Step
    \/ RpJoinT1 \/ RpJoinT2

ProcSpec == Init /\ [][ProcNext]_vars

----------------------------------------------------------------------------
(* LoftService::set_show_titlebar (dbus.rs:54-67), next to connections     *)
(* that subscribe and receive, Show calls and the supervisor.              *)

\* DaemonMessage::TitlebarConfig { show }  (dbus.rs:57)
TitlebarConfig(show) ==
    IF show THEN "TitlebarConfig{show:true}" ELSE "TitlebarConfig{show:false}"

\* the show-waiter is woken as in request_show
set_show_titlebar_wakes(show, saved) ==
    /\ show_titlebar' = show
    /\ ChannelSend(TitlebarConfig(show))
    /\ saved_titlebar' = IF saved THEN show ELSE saved_titlebar
    /\ NotifyWaiters
    /\ UNCHANGED <<visible, quit_requested, chrome_pid, pid_lock, dnd,
                   badge_count>>

\* the store, the send whose failure is dropped, and the configuration file,
\* which is loaded, changed and saved; a failed load or save is only logged
\* (saved tells whether both succeeded)
set_show_titlebar(show, saved) ==
    /\ show_titlebar' = show
    /\ ChannelSend(TitlebarConfig(show))
    /\ saved_titlebar' = IF saved THEN show ELSE saved_titlebar
    /\ UNCHANGED <<visible, quit_requested, chrome_pid, pid_lock, show_signal,
                   dnd, badge_count>>

SetShowTitlebar ==
    /\ sent < MaxCommands
    /\ \E show \in BOOLEAN, saved \in BOOLEAN : set_show_titlebar(show, saved)
    /\ UNCHANGED <<supVars, osVars, qpc, histVars>>
    /\ UNCHANGED <<subVars, startVars, cdpVars, pipeVars, codecVars,
                   conn_out, processed, readyAt, conn_err,
                   ifaceVars, bootVars, procVars>>

\* a connection is accepted once
TitlebarAccepts(s) ==
    /\ sub[s] = "none"
    /\ Accept(s)

\* a Show call on the Control Interface
TitlebarShow ==
    /\ sent < MaxCommands
    /\ Show

TitlebarNext ==
    \/ SetShowTitlebar
    \/ TitlebarShow
    \/ Supervisor
    \/ BrowserClosed
    \/ GnomeRecv
    \/ \E s \in RelayConns : TitlebarAccepts(s) \/ RelayRecv(s)

TitlebarSpec == Init /\ [][TitlebarNext]_vars

----------------------------------------------------------------------------
(* Properties *)

SupervisorReturned == sup_pc \in {"terminated", "failed"}

\* C1: once quit_requested is true it is true in every later state
C1_QuitMonotonic == [][quit_requested => quit_requested']_vars

\* quit was requested, and the supervisor later woke from its wait and read it
C1_Witness == quit_requested /\ sup_pc = "terminated" /\ resumes >= 1 /\ ncalls >= 1

EffectOf(w) == w \in {"Show", "window_shown", "spawn"}

\* C2 (as claimed): GetStatus().visible equals the effect of the most recently
\* applied of Show / Hide / window_shown / window_hidden
C2_VisibleFollowsLastCall ==
    lastCall # "none" => (GetStatusVisible = EffectOf(lastCall))

\* C2 (amended): GetStatus().visible equals the effect of the most recently
\* applied write among Show / Hide / window_shown / window_hidden and the
\* supervisor's own stores (true after a spawn, false after the browser's exit)
C2_VisibleFollowsLastWriter ==
    IF lastWriter = "none"
       THEN GetStatusVisible = FALSE
       ELSE GetStatusVisible = EffectOf(lastWriter)

\* a Show was the last call, the browser then exited and the supervisor
\* cleared visible
C2_Witness == lastCall = "Show" /\ lastWriter = "exit" /\ ~visible

\* C3: while quit_requested is false, every Show that finds the supervisor
\* suspended in its wait for show resumes that wait exactly once (the resume is
\* pending or has happened, never twice, never without a waking call), and every
\* resume performs exactly one respawn
C3_ShowResumesExactlyOnce ==
    ~quit_requested =>
        /\ resumes + (IF show_signal = "notified" THEN 1 ELSE 0) = wakes
        /\ (show_signal = "notified") => (sup_pc = "waiting" /\ ENABLED SupWake)
        /\ sup_pc # "failed" =>
              nspawn + (IF sup_pc = "loop_top" /\ ~wait_for_show THEN 1 ELSE 0)
                 = 1 + resumes

\* one Show woke the waiting supervisor, and the second browser is running
C3_Witness ==
    /\ ~quit_requested /\ wakes = 1 /\ resumes = 1
    /\ nspawn = 2 /\ sup_pc = "running" /\ lastCall = "Show"

\* C4 (as claimed): a Quit requested at any supervisor state eventually makes
\* run_loop return
C4_QuitTerminates == quit_requested ~> SupervisorReturned

\* C5 (as claimed): whenever request_quit reaches its signalling step while a
\* pid is recorded in chrome_pid, SIGTERM is sent to that pid
C5_QuitSignalsRecordedPid ==
    [][ ( /\ \E c \in QuitCallers : qpc[c] = "stored" /\ qpc'[c] = "signalled"
          /\ chrome_pid # 0 )
        => chrome_pid \in killed' ]_vars

\* commands sent since s subscribed that s has not read yet
Unread(s) == sent - cursor[s] + 1

\* C7: a subscriber that never lagged (it got no lag indication and is not
\* more than CHANNEL_DEPTH commands behind) has received, exactly once and in
\* the order sent, every command sent since it subscribed up to its read
\* position, and whatever it has not read yet is still there for it to receive
C7_FanOutInOrder ==
    \A s \in Subs :
        (sub[s] # "none" /\ lagged[s] = 0 /\ Unread(s) <= CHANNEL_DEPTH) =>
            /\ rcvd[s] = SubSeq(hist, subAt[s] + 1, subAt[s] + Len(rcvd[s]))
            /\ sub[s] = "open" => Len(rcvd[s]) = cursor[s] - 1 - subAt[s]
            /\ (sub[s] = "open" /\ Unread(s) > 0) =>
                  /\ RecvResult(s).kind = "Ok"
                  /\ RecvResult(s).msg = hist[cursor[s]]

\* both subscribers received the same three or more commands, of both kinds,
\* without lagging
C7_Witness ==
    /\ \A s \in {"gnome"} \cup RelayConns : sub[s] = "open" /\ lagged[s] = 0 /\ Len(rcvd[s]) >= 3
    /\ subAt["relay"] = 0
    /\ rcvd["relay"] = rcvd["gnome"]
    /\ \E i, j \in 1..Len(rcvd["relay"]) : rcvd["relay"][i] # rcvd["relay"][j]

\* a step in which subscriber s gets a lag indication
LagStep(s) == lagged'[s] = lagged[s] + 1

\* C8: a send is never held back by a subscriber; a subscriber with more than
\* CHANNEL_DEPTH unread commands gets, at its next receive, a lag indication
\* that skips exactly the overwritten commands, stays connected, and from then
\* on receives the retained commands in the order sent; no other subscriber's
\* state changes in that step
C8_LagIsLocal ==
    /\ [](ncalls < MaxSends => ENABLED BcastToggle)
    /\ [][ \A s \in Subs :
             /\ (sub[s] = "open" /\ Unread(s) > CHANNEL_DEPTH
                    /\ cursor'[s] # cursor[s])
                  => /\ LagStep(s)
                     /\ sub'[s] = "open"
                     /\ rcvd'[s] = rcvd[s]
                     /\ missed'[s] = missed[s] + (Unread(s) - CHANNEL_DEPTH)
                     /\ cursor'[s] = sent - CHANNEL_DEPTH + 1
                     /\ Unread(s)' = CHANNEL_DEPTH
             /\ LagStep(s) =>
                  \A t \in Subs \ {s} :
                     <<sub[t], cursor[t], rcvd[t], lagged[t], missed[t]>>'
                        = <<sub[t], cursor[t], rcvd[t], lagged[t], missed[t]>>
             /\ (Len(rcvd'[s]) > Len(rcvd[s])) =>
                  /\ rcvd'[s] = Append(rcvd[s], hist[cursor[s]])
                  /\ cursor'[s] = cursor[s] + 1
         ]_vars

\* the relay connection lagged, stayed open and then received every retained
\* command, while the GNOME Shell handler never lagged and received them all
C8_Witness ==
    /\ sub["relay"] = "open" /\ lagged["relay"] = 1 /\ missed["relay"] >= 1
    /\ Len(rcvd["relay"]) = CHANNEL_DEPTH
    /\ lagged["gnome"] = 0 /\ Len(rcvd["gnome"]) = sent /\ sent > CHANNEL_DEPTH

\* C6 (as claimed): at most one process of the service gets as far as its
\* supervisor, and no start-up that meets the name taken ends with the
\* registration error instead of forwarding Show and exiting with success
C6_SingleInstance ==
    /\ Cardinality({p \in Procs : spc[p] \in {"registered", "supervising"}}) <= 1
    /\ \A p \in Procs : spc[p] # "exit_name_taken"

\* C9: the loader returns success or a CDP failure only as the outcome of the
\* id:1 response, and once it has read that response it has returned exactly
\* its outcome, whatever unrelated or malformed messages came before it
C9_OnlyId1Outcome ==
    /\ (cdp_pc = "done" /\ cdp_result.status \in {"ok", "cdp_failed"})
          => (answer_at = "read" /\ cdp_result = answer)
    /\ answer_at = "read" => (cdp_pc = "done" /\ cdp_result = answer)

\* the loader passed over other messages and returned the error of the id:1
\* response
C9_Witness ==
    /\ cdp_pc = "done" /\ answer_at = "read" /\ skipped
    /\ cdp_result = [status |-> "cdp_failed", msg |-> "m"]

\* C10 (as claimed): once the deadline has passed the loader returns, unless
\* the browser comes to answer the request
C10_ReturnsAfterDeadline ==
    deadline_passed ~> (cdp_pc = "done" \/ answer_at # "none")

\* frame i of the stream was made by the codec and is within the limit
WellFormed(i) ==
    frames[i].kind \in {"value", "typed"} /\ frames[i].declared <= MAX_MESSAGE_SIZE

\* the decodes that have a frame
Decodes == 1..Min(Len(decoded), Len(frames))

RECURSIVE Concat(_, _)
Concat(fs, from) ==
    IF from > Len(fs) THEN <<>> ELSE fs[from].bytes \o Concat(fs, from + 1)

C12_TooLargeBeforeBody ==
    \A i \in Decodes : frames[i].declared > MAX_MESSAGE_SIZE =>
        \A d \in {decoded[i].sync, decoded[i].async} :
            d.status = "TooLarge" /\ d.body_read = 0

\* a header of 2000000 with 100 bytes after it was decoded at the end of the
\* stream
C12_Witness ==
    /\ wire_closed /\ Len(decoded) = 2 /\ Len(frames) = 2
    /\ frames[2].declared = 2000000 /\ ByteLen(frames[2].bytes) = 104
    /\ decoded[2].sync.status = "TooLarge" /\ decoded[2].async.status = "TooLarge"

\* C13: a frame that declares exactly 1,048,576 bytes is accepted and its
\* body read; one that declares 1,048,577 is refused as too large
C13_LimitInclusive ==
    \A i \in Decodes : \A d \in {decoded[i].sync, decoded[i].async} :
        /\ (WellFormed(i) /\ frames[i].declared = MAX_MESSAGE_SIZE) =>
              d.status = "Ok" /\ d.body_read = MAX_MESSAGE_SIZE
        /\ frames[i].declared = MAX_MESSAGE_SIZE + 1 => d.status = "TooLarge"

\* a body of the largest size was decoded, then one of a byte more refused
C13_Witness ==
    /\ Len(decoded) = 2 /\ Len(frames) >= 2
    /\ frames[1].declared = MAX_MESSAGE_SIZE /\ decoded[1].sync.body_read = MAX_MESSAGE_SIZE
    /\ frames[2].declared = MAX_MESSAGE_SIZE + 1 /\ decoded[2].sync.status = "TooLarge"

\* C14: while the frames decoded so far were made by the codec, the decodes
\* returned their values in the order written and the stream stands at the
\* first byte of the next frame
C14_ExactConsumption ==
    (\A i \in Decodes : WellFormed(i)) =>
        /\ \A i \in Decodes :
              /\ decoded[i].sync.status = "Ok" /\ decoded[i].sync.value = frames[i].value
              /\ decoded[i].async.status = "Ok" /\ decoded[i].async.value = frames[i].value
        /\ Len(decoded) <= Len(frames) => wire = Concat(frames, Len(decoded) + 1)

\* two different messages were decoded and a third frame comes next
C14_Witness ==
    /\ Len(decoded) = 2 /\ Len(frames) = 3
    /\ \A i \in 1..3 : WellFormed(i)
    /\ frames[1].value # frames[2].value /\ frames[2].value # frames[3].value
    /\ wire = frames[3].bytes

\* the count of the last BadgeUpdate dispatched, 0 when there was none
LastBadge ==
    LET updates == {i \in 1..Len(processed) :
                       processed[i].ok /\ processed[i].msg.variant = "BadgeUpdate"}
    IN  IF updates = {} THEN 0
        ELSE LET last == CHOOSE i \in updates : \A j \in updates : j <= i
             IN  CountOf(processed[last].msg.args["count"])

\* C15: GetStatus().badge_count is the count of the badge_update frame the
\* relay server processed last, and 0 before the first; nothing else (a
\* Toggle, another frame, a forwarded command, the end of the connection)
\* changes it
C15_BadgeIsLastUpdate == GetStatusBadge = LastBadge

\* badge_update frames with counts 5 and 3 were processed, and a command was
\* broadcast
C15_Witness ==
    /\ Len(processed) = 2 /\ sent >= 1
    /\ processed[1].msg = [variant |-> "BadgeUpdate", args |-> ("count" :> "n:5")]
    /\ processed[2].msg = [variant |-> "BadgeUpdate", args |-> ("count" :> "n:3")]
    /\ badge_count = 3

\* the length-prefixed encoding of a command, written out
Expected(name) ==
    LET body == to_vec(to_value(CommandMessage(name)))
    IN  to_le_bytes(ByteLen(body)) \o body

RECURSIVE EncodeAll(_)
EncodeAll(names) ==
    IF names = <<>> THEN <<>> ELSE Expected(Head(names)) \o EncodeAll(Tail(names))

IsPrefix(a, b) == Len(a) <= Len(b) /\ a = SubSeq(b, 1, Len(a))

\* C16 (as claimed): once the peer has connected and sent its ready frame,
\* the connection emits the commands broadcast from then on, in order and
\* skipping none (possibly after commands broadcast earlier)
C16_EmitsAfterReady ==
    \A s \in RelayConns :
        readyAt # -1 =>
            \E j \in 0..readyAt :
                IsPrefix(conn_out[s], EncodeAll(SubSeq(hist, j + 1, Len(hist))))

\* C16 (amended): the bytes a connection has written are the length-prefixed
\* encodings of the commands it received from the channel, once each and in
\* receive order, and while it has not lagged these are the commands broadcast
\* since the server accepted it
C16_ForwardsReceived ==
    \A s \in RelayConns :
        /\ conn_out[s] = EncodeAll(rcvd[s])
        /\ lagged[s] = 0 =>
              rcvd[s] = SubSeq(hist, subAt[s] + 1, subAt[s] + Len(rcvd[s]))

\* the peer sent ready before any broadcast, one command was broadcast before
\* the server accepted the connection, and the two after it were forwarded
C16_Witness ==
    \E s \in RelayConns :
        /\ sub[s] = "open" /\ readyAt = 0 /\ subAt[s] = 1
        /\ Len(processed) >= 1
        /\ rcvd[s] = <<"HideWindow", "ShowWindow">>
        /\ conn_out[s] = Expected("HideWindow") \o Expected("ShowWindow")

\* the supervisor's positions between the return of child.wait() and the load
\* of quit_requested (mod.rs:284-290)
ExitPath == {"lock_exit", "clear_pid", "unlock_exit", "clear_visible", "check_quit"}

\* the supervisor's state WaitingForShow
WaitingForShow ==
    \/ sup_pc = "loop_top" /\ wait_for_show
    \/ sup_pc = "waiting"

\* the supervisor's state Spawning
Spawning ==
    \/ sup_pc = "loop_top" /\ ~wait_for_show
    \/ sup_pc \in {"loading", "lock_spawn", "write_pid", "unlock_spawn", "set_visible"}

C18_WakeThenSpawnOrTerminate ==
    [][ /\ (sup_pc = "waiting" /\ sup_pc' # sup_pc) =>
              /\ nspawn' = nspawn
              /\ IF quit_requested
                    THEN sup_pc' = "terminated"
                    ELSE sup_pc' = "loop_top" /\ ~wait_for_show'
        /\ (sup_pc = "loop_top" /\ ~wait_for_show /\ sup_pc' # sup_pc) =>
              \/ sup_pc' = "loading" /\ nspawn' = nspawn + 1 /\ child' = "alive"
              \/ sup_pc' = "failed" /\ nspawn' = nspawn
        /\ sup_pc = "terminated" =>
              /\ sup_pc' = "terminated"
              /\ nspawn' = nspawn
              /\ chrome_pid' = chrome_pid
              /\ lastWriter' # lastWriter => lastWriter' \notin {"spawn", "exit"} ]_vars

\* the supervisor was woken by a quit request and returned without a second
\* spawn; visible is as a Show left it
C18_Witness ==
    /\ sup_pc = "terminated" /\ resumes = 1 /\ nspawn = 1 /\ quit_requested
    /\ chrome_pid = 0 /\ lastWriter = "Show" /\ visible

\* C19 (as claimed): chrome_pid holds a pid exactly when the browser process
\* is alive
C19_PidIffAlive == (chrome_pid # 0) <=> (child = "alive")

\* C19 (amended): chrome_pid is written by the supervisor only (at its two
\* stores, under the lock); when it holds a pid this is the pid of the newest
\* browser process, which was alive when the pid was stored and whose exit
\* the supervisor has not yet followed by its clearing store; a browser that
\* is alive with no pid recorded is one that is still loading the extension,
\* whose pid store is still to come, or whose start-up failed
C19_PidOwnedBySupervisor ==
    /\ [](chrome_pid # 0 =>
             /\ chrome_pid = nspawn
             /\ child \in {"alive", "exited"}
             /\ sup_pc \in {"unlock_spawn", "set_visible", "running",
                             "lock_exit", "clear_pid"})
    /\ []((child = "alive" /\ chrome_pid = 0) =>
             sup_pc \in {"loading", "lock_spawn", "write_pid", "failed"})
    /\ [][chrome_pid' # chrome_pid =>
             /\ pid_lock = "sup"
             /\ \/ sup_pc = "write_pid" /\ sup_pc' = "unlock_spawn" /\ chrome_pid' = nspawn
                \/ sup_pc = "clear_pid" /\ sup_pc' = "unlock_exit" /\ chrome_pid' = 0 ]_vars

\* request_quit read the recorded pid and signalled it, and the process has
\* exited while its pid is still recorded
C19_Witness ==
    /\ chrome_pid # 0 /\ chrome_pid \in killed /\ child = "exited"
    /\ sup_pc = "running"

\* the command channel took msg in this step (a send with no subscriber
\* stores nothing)
Broadcast(msg) ==
    IF \E s \in Subs : sub[s] = "open"
       THEN hist' = Append(hist, msg) /\ sent' = sent + 1
       ELSE hist' = hist /\ sent' = sent

\* C20: Toggle loads visible and then performs exactly one of Hide (visible
\* := false, HideWindow broadcast, nobody woken) when it loaded true, and
\* Show (visible := true, ShowWindow broadcast, the show-waiter woken) when it
\* loaded false; when visible still has the loaded value at the call, that
\* is with no concurrent writer, the Toggle inverts visible
C20_ToggleDispatches ==
    [][ /\ (toggle_saw = "none" /\ toggle_saw' # "none") =>
              /\ toggle_saw' = IF visible THEN "visible" ELSE "hidden"
              /\ UNCHANGED <<visible, hist, sent, show_signal, ncalls>>
        /\ (toggle_saw # "none" /\ toggle_saw' = "none") =>
              /\ ncalls' = ncalls + 1
              /\ IF toggle_saw = "visible"
                    THEN /\ visible' = FALSE
                         /\ lastCall' = "Hide"
                         /\ Broadcast("HideWindow")
                         /\ show_signal' = show_signal
                    ELSE /\ visible' = TRUE
                         /\ lastCall' = "Show"
                         /\ Broadcast("ShowWindow")
                         /\ show_signal' = IF show_signal = "waiting"
                                              THEN "notified" ELSE show_signal
              /\ (visible = (toggle_saw = "visible")) => (visible' = ~visible) ]_vars

\* a Toggle found the window not visible while the supervisor waited for a
\* show: it performed Show, which broadcast ShowWindow to a subscriber and
\* woke the supervisor
C20_Witness ==
    /\ toggle_saw = "none" /\ lastCall = "Show" /\ lastWriter = "Show" /\ visible
    /\ wakes = 1 /\ show_signal = "notified"
    /\ hist # <<>> /\ hist[Len(hist)] = "ShowWindow"

\* the delays of the attempts made so far
DelaysOf(log) == [i \in 1..Len(log) |-> log[i].delay]

\* C21: the tray is attempted at most 5 times, the attempts being preceded by
\* the delays 0, 2, 4, 8, 16 in this order; no attempt follows a successful
\* one, after which start-up continues; after a failed 5th attempt run has
\* returned an error and neither the socket server nor the supervisor was
\* started; both are started only after a successful attempt
C21_TrayRetries ==
    /\ Len(tray_log) <= 5
    /\ DelaysOf(tray_log) = SubSeq(<<0, 2, 4, 8, 16>>, 1, Len(tray_log))
    /\ \A i \in 1..Len(tray_log) : tray_log[i].ok => i = Len(tray_log)
    /\ (tray_log # <<>> /\ tray_log[Len(tray_log)].ok) =>
          boot_pc \notin {"tray", "new_state", "register", "detect"}
    /\ (Len(tray_log) = 5 /\ ~tray_log[5].ok) =>
          /\ boot_pc = "exit_err"
          /\ listener = "not_started"
          /\ sup_pc = "loop_top" /\ nspawn = 0
    /\ (listener # "not_started" \/ nspawn > 0 \/ boot_pc = "run_loop") =>
          (tray_log # <<>> /\ tray_log[Len(tray_log)].ok)

\* the first four attempts failed and the fifth one succeeded: the socket
\* server is listening and the supervisor has spawned the browser
C21_Witness ==
    /\ Len(tray_log) = 5 /\ tray_log[5].ok /\ ~tray_log[4].ok
    /\ listener = "listening" /\ nspawn = 1 /\ boot_pc = "run_loop"

\* C22 (as claimed): in a daemon started with the start_minimized hint, the
\* first show event after start-up (the first window_shown frame, with no
\* other call before it) does not leave the window visible
C22_FirstShowSuppressed ==
    (start_minimized /\ ncalls = 1 /\ lastCall = "window_shown"
        /\ lastWriter = "window_shown") => ~GetStatusVisible

\* C23 (as claimed): once the socket server has failed to bind its endpoint
\* the daemon does not go on supervising: no browser is spawned after the
\* failure
C23_BindFailureIsFatal ==
    [][listener = "failed" => nspawn' = nspawn]_vars

\* a step in which the connection s ends on a failure of its own
ConnectionFails(s) == sub[s] = "open" /\ sub'[s] = "closed"

\* C24: a step in which a relay connection ends on a failure (a read that
\* returns an I/O error, end of stream, a body that is not JSON or a length
\* above the limit, or a failed write) changes no field of the shared state,
\* sends nothing on the command channel, leaves the supervisor and run where
\* they are and leaves every other subscriber as it is; a connection that
\* waits is accepted whatever ended before; and a second connection that has
\* not lagged has received exactly the commands sent since its acceptance up
\* to its read position
C24_FailureStaysLocal ==
    /\ [][\A s \in RelayConns : ConnectionFails(s) =>
             /\ conn_err' \in {"Io", "EofHeader", "EofBody", "BadJson", "TooLarge",
                                "WriteIo"}
             /\ UNCHANGED <<daemonVars, badge_count, start_minimized>>
             /\ UNCHANGED <<chanVars, supVars, osVars, qpc, boot_pc, listener>>
             /\ \A o \in Subs \ {s} :
                   /\ sub'[o] = sub[o] /\ cursor'[o] = cursor[o]
                   /\ rcvd'[o] = rcvd[o] /\ lagged'[o] = lagged[o] ]_vars
    /\ [](\A s \in RelayConns : sub[s] = "pending" => ENABLED ServerAccepts(s))
    /\ [](\A o \in OtherConns :
             (sub[o] = "open" /\ lagged[o] = 0) =>
                 rcvd[o] = SubSeq(hist, subAt[o] + 1, cursor[o] - 1))

\* a connection ended on a frame above the limit; a new connection was
\* accepted after it, its badge update was applied and it has forwarded a
\* command; the second connection received the commands sent before and
\* after the failure
C24_Witness ==
    /\ conn_err = "TooLarge" /\ badge_count = 5
    /\ sub["relay"] = "open" /\ Len(rcvd["relay"]) = 1
    /\ sub["other"] = "open" /\ Len(rcvd["other"]) = 2

\* the decoded frame t is none of BadgeUpdate, WindowHidden, WindowShown
Ignorable(t) ==
    ~t.ok \/ t.msg.variant \notin {"BadgeUpdate", "WindowHidden", "WindowShown"}

FirstFrame == read_nm_message(browser_sent[1])

\* the first frame decodes to an object whose service field is a string
FirstFrameNamesService ==
    /\ browser_sent # <<>>
    /\ FirstFrame.status = "Ok"
    /\ FirstFrame.value.kind = "obj"
    /\ "service" \in DOMAIN FirstFrame.value.fields
    /\ FirstFrame.value.fields["service"] \in {"s:whatsapp", "s:hello"}

\* C26: the relay process does nothing before it has read one frame from
\* standard input; it goes on to connect only when that frame decoded to an
\* object with a string service field, having read exactly that frame; in
\* every other case it ends with an error without having connected to a socket
\* and without having written a frame to the socket or to standard output
C26_FirstFrameDecides ==
    /\ rp_pc = "read_first" =>
          /\ stdin_read = 0 /\ ~rp_connected
          /\ sock_out = <<>> /\ rp_stdout = <<>>
          /\ t1 = "unborn" /\ t2 = "unborn"
    /\ (rp_connected \/ rp_pc = "connect") =>
          /\ FirstFrameNamesService
          /\ first_msg = FirstFrame.value
    /\ rp_pc \in {"connect", "write_first", "clone"} =>
          stdin_read = ByteLen(browser_sent[1])
    /\ (rp_pc # "read_first" /\ ~FirstFrameNamesService) =>
          /\ rp_pc = "exit_err" /\ ~rp_connected
          /\ sock_out = <<>> /\ rp_stdout = <<>>
          /\ t1 = "unborn" /\ t2 = "unborn"

\* the first frame carried a service field that is a number, and a second
\* frame was waiting: the process ended without connecting
C26_Witness ==
    /\ rp_pc = "exit_err" /\ ~rp_connected
    /\ Len(browser_sent) = 2
    /\ first_msg.kind = "obj" /\ "service" \in DOMAIN first_msg.fields
    /\ first_msg.fields["service"] = "n:5"
    /\ stdin_read = ByteLen(browser_sent[1])
    /\ sock_out = <<>>

\* the bytes of the first k frames of a sequence of frames
RECURSIVE BytesOf(_, _)
BytesOf(fs, k) == IF k = 0 THEN 0 ELSE BytesOf(fs, k - 1) + ByteLen(fs[k])

\* the frame out carries, whole, the JSON value of the frame in
SameValue(in, out) ==
    /\ read_nm_message(in).status = "Ok"
    /\ read_nm_message(out).status = "Ok"
    /\ read_nm_message(out).rest = <<>>
    /\ read_nm_message(out).value = read_nm_message(in).value

\* C27 as stated: every frame written to the socket is, byte for byte, the
\* frame read from standard input at the same position, the first frame
\* included, and every frame written to standard output is, byte for byte,
\* the frame read from the socket at the same position
C27_ForwardsVerbatim ==
    /\ Len(sock_out) <= Len(browser_sent)
    /\ \A i \in 1..Len(sock_out) : sock_out[i] = browser_sent[i]
    /\ Len(rp_stdout) <= Len(daemon_sent)
    /\ \A i \in 1..Len(rp_stdout) : rp_stdout[i] = daemon_sent[i]

\* C27 (amended): the i-th frame written to the socket carries the JSON value
\* of the i-th frame read from standard input, the first frame being the one
\* read at start-up, and the i-th frame written to standard output carries
\* the JSON value of the i-th frame read from the socket; while a loop runs,
\* every frame it has read has been written
C27_ForwardsValues ==
    /\ Len(sock_out) <= Len(browser_sent)
    /\ \A i \in 1..Len(sock_out) : SameValue(browser_sent[i], sock_out[i])
    /\ sock_out # <<>> => read_nm_message(sock_out[1]).value = first_msg
    /\ Len(rp_stdout) <= Len(daemon_sent)
    /\ \A i \in 1..Len(rp_stdout) : SameValue(daemon_sent[i], rp_stdout[i])
    /\ (rp_pc = "clone" \/ t1 = "running") =>
          stdin_read = BytesOf(browser_sent, Len(sock_out))
    /\ (t2 = "running" /\ sock_in = <<>>) => Len(rp_stdout) = Len(daemon_sent)

\* both loops run; the first frame and a later one were forwarded to the
\* socket in order, the first with other bytes than were read, and a command
\* of the daemon was forwarded to standard output
C27_Witness ==
    /\ t1 = "running" /\ t2 = "running"
    /\ ~stdin_closed /\ ~stdout_closed /\ ~sock_closed
    /\ Len(sock_out) = 2 /\ Len(rp_stdout) = 1
    /\ sock_out[1] # browser_sent[1]
    /\ sock_out[2] = browser_sent[2]
    /\ read_nm_message(sock_out[2]).value # first_msg

\* C28: the step that ends one loop leaves the other loop and the main thread
\* where they were; a loop whose partner has ended still forwards the frame
\* it reads; the process returns Ok only when both loops have ended, it does
\* not return while a loop runs, and once both have ended the main thread can
\* always take its next join
C28_LoopsEndIndependently ==
    /\ [][/\ (t1 = "running" /\ t1' = "ended") =>
                /\ t2' = t2 /\ rp_pc' = rp_pc
                /\ UNCHANGED <<sock_in, rp_stdout, stdout_closed>>
          /\ (t2 = "running" /\ t2' = "ended") =>
                /\ t1' = t1 /\ rp_pc' = rp_pc
                /\ UNCHANGED <<rp_stdin, sock_out, stdin_closed>>
          /\ (t1 = "ended" /\ t2 = "running" /\ sock_in' # sock_in
                 /\ Len(sock_in') < Len(sock_in)
                 /\ read_nm_message(sock_in).status = "Ok" /\ ~stdout_closed) =>
                /\ Len(rp_stdout') = Len(rp_stdout) + 1 /\ t2' = "running"
          /\ (t2 = "ended" /\ t1 = "running" /\ rp_stdin' # rp_stdin
                 /\ Len(rp_stdin') < Len(rp_stdin)
                 /\ read_nm_message(rp_stdin).status = "Ok" /\ ~sock_closed) =>
                /\ Len(sock_out') = Len(sock_out) + 1 /\ t1' = "running"
         ]_vars
    /\ [](/\ rp_pc = "exit_ok" => (t1 = "ended" /\ t2 = "ended")
          /\ (t1 = "running" \/ t2 = "running") =>
                rp_pc \in {"join_t1", "join_t2"}
          /\ (t1 = "ended" /\ t2 = "ended") =>
                rp_pc \in {"join_t1", "join_t2", "exit_ok"}
          /\ (t1 = "ended" /\ t2 = "ended" /\ rp_pc = "join_t1") => ENABLED RpJoinT1
          /\ (t1 = "ended" /\ t2 = "ended" /\ rp_pc = "join_t2") => ENABLED RpJoinT2)

\* standard input ended before the other loop had written anything; that
\* loop then forwarded two frames and still runs, and the process has not
\* returned
C28_Witness ==
    /\ t1 = "ended" /\ at_end["t1"] = 0
    /\ t2 = "running" /\ Len(rp_stdout) = 2
    /\ rp_pc = "join_t2"

\* ---- a failed extension load

\* C29: the step in which the extension load fails changes nothing of the
\* shared state and starts nothing; from then on the supervisor stays
\* returned with its error, spawns no browser, writes neither chrome_pid nor
\* visible, and run can only return that error, which it is always able to do;
\* the attempt's process identifier was never recorded
C29_LoadFailureAborts ==
    /\ [][/\ sup_pc = "loading" => sup_pc' \in {"loading", "lock_spawn", "failed"}
          /\ (sup_pc = "loading" /\ sup_pc' = "failed") =>
                UNCHANGED <<daemonVars, osVars, wait_for_show, lastWriter, boot_pc>>
          /\ sup_pc = "failed" =>
                /\ sup_pc' = "failed"
                /\ nspawn' = nspawn
                /\ chrome_pid' = chrome_pid /\ pid_lock' = pid_lock
                /\ lastWriter' # "spawn"
                /\ boot_pc' \in {boot_pc, "exit_err"}
         ]_vars
    /\ [](sup_pc \in {"loading", "failed"} =>
             /\ chrome_pid = 0 /\ pid_lock = "free"
             /\ lastWriter # "spawn"
             /\ boot_pc \in {"run_loop", "exit_err"}
             /\ (sup_pc = "failed" /\ boot_pc = "run_loop")
                    => ENABLED BootRunLoopReturns)

\* the second browser was spawned after a Show, its extension load failed
\* and run returned the error; the browser of the failed attempt is still
\* alive and no identifier is recorded for it
C29_Witness ==
    /\ sup_pc = "failed" /\ boot_pc = "exit_err"
    /\ nspawn = 2 /\ child = "alive"
    /\ chrome_pid = 0 /\ resumes = 1

\* ---- SetShowTitlebar

TitlebarMessages == {TitlebarConfig(TRUE), TitlebarConfig(FALSE)}

\* what an open subscriber that never lagged has received is what was sent
\* since it subscribed, up to its position
ReceivedWhatWasSent ==
    \A s \in Subs :
       (sub[s] = "open" /\ lagged[s] = 0) =>
          rcvd[s] = SubSeq(hist, subAt[s] + 1, cursor[s] - 1)

\* C30: a step that changes the display preference or its stored copy, or
\* sends a TitlebarConfig, sets the preference to the value show of the call;
\* with a subscriber it sends exactly TitlebarConfig{show}, which every
\* subscriber of that moment has still to receive; it leaves visible,
\* badge_count, dnd, quit_requested and chrome_pid unchanged, wakes no
\* show-waiter and moves neither the supervisor nor the browser; and what a
\* subscriber has received is what was sent since it subscribed
C30_SetShowTitlebar ==
    /\ [][(\/ show_titlebar' # show_titlebar
           \/ saved_titlebar' # saved_titlebar
           \/ (sent' = sent + 1 /\ hist'[sent'] \in TitlebarMessages)) =>
            /\ UNCHANGED <<visible, badge_count, dnd, quit_requested,
                           chrome_pid, pid_lock, show_signal>>
            /\ UNCHANGED <<supVars, osVars, wakes, resumes, ncalls, subVars>>
            /\ saved_titlebar' \in {saved_titlebar, show_titlebar'}
            /\ IF \E s \in Subs : sub[s] = "open"
                  THEN /\ sent' = sent + 1
                       /\ hist' = Append(hist, TitlebarConfig(show_titlebar'))
                       /\ buf'[Len(buf')] = TitlebarConfig(show_titlebar')
                       /\ \A s \in Subs : sub[s] = "open" => cursor[s] <= sent'
                  ELSE UNCHANGED <<sent, hist, buf>>
         ]_vars
    /\ []ReceivedWhatWasSent

\* the supervisor waits for a Show; SetShowTitlebar(false) was called with
\* one subscriber and SetShowTitlebar(true) with two: the first subscriber
\* received both commands and the second the later one; the supervisor still
\* waits and visible is still false
C30_Witness ==
    /\ sup_pc = "waiting" /\ show_signal = "waiting" /\ ~visible
    /\ show_titlebar /\ saved_titlebar
    /\ hist = <<TitlebarConfig(FALSE), TitlebarConfig(TRUE)>>
    /\ rcvd["gnome"] = hist
    /\ rcvd["relay"] = <<TitlebarConfig(TRUE)>>
    /\ wakes = 0 /\ resumes = 0

\* ---- the supervisor, the pid and the show signal

\* C31 as stated: whenever visible is true by the supervisor's write for a
\* spawned process, chrome_pid is present
C31_VisibleBySpawnHasPid ==
    (visible /\ lastWriter = "spawn") => chrome_pid # 0

\* the supervisor has taken the pid away after the exit it observed and has
\* not yet cleared visible (mod.rs:285-286)
BetweenClearPidAndClearVisible == sup_pc \in {"unlock_exit", "clear_visible"}

\* C31 (amended): when the supervisor is about to set visible for a spawn,
\* the identifier of that spawn is recorded; and while visible is true by
\* that write, the identifier stays recorded until the supervisor, having
\* observed the exit, clears it just before it clears visible
C31_PidRecordedBeforeVisible ==
    /\ sup_pc = "set_visible" => (chrome_pid = nspawn /\ chrome_pid # 0)
    /\ (visible /\ lastWriter = "spawn" /\ ~BetweenClearPidAndClearVisible) =>
          (chrome_pid = nspawn /\ chrome_pid # 0)

\* the second browser runs, visible by the supervisor's write, its identifier
\* recorded
C31_Witness ==
    /\ sup_pc = "running" /\ visible /\ lastWriter = "spawn"
    /\ nspawn = 2 /\ chrome_pid = 2 /\ child = "alive"

\* a step that applies a Show (the call itself or Toggle's show branch)
ShowStep == ncalls' = ncalls + 1 /\ lastCall' = "Show"

\* a step in which some request_quit performs its notify_waiters
QuitNotifyStep == \E c \in QuitCallers : qpc[c] = "signalled" /\ qpc'[c] # "signalled"

\* C32: a Show that finds nobody waiting on the show signal stores no permit:
\* the signal never holds a permit, the supervisor that begins its wait after
\* the browser's exit is left waiting, it leaves the wait only when notified,
\* and the notification is made only by a Show or by a Quit's notify that runs
\* while the supervisor is waiting
C32_EarlierShowStoresNoPermit ==
    /\ [](show_signal # "permit")
    /\ [][(sup_pc # "waiting" /\ sup_pc' = "waiting") => show_signal' = "waiting"]_vars
    /\ [][(sup_pc = "waiting" /\ sup_pc' # "waiting") => show_signal = "notified"]_vars
    /\ [][(show_signal # "notified" /\ show_signal' = "notified") =>
             (sup_pc = "waiting" /\ show_signal = "waiting" /\ (ShowStep \/ QuitNotifyStep))]_vars

\* a Show was applied while the first browser ran, the browser exited, and the
\* supervisor waits without having been woken
C32_Witness ==
    /\ sup_pc = "waiting" /\ show_signal = "waiting"
    /\ lastCall = "Show" /\ lastWriter = "exit" /\ ~visible
    /\ nspawn = 1 /\ wakes = 0 /\ ~quit_requested

\* C33 (as claimed): once quit_requested is true the supervisor starts no
\* browser process: no step taken with quit_requested true spawns one
C33_NoSpawnAfterQuit == [][quit_requested => nspawn' = nspawn]_vars

\* C34 (as claimed): SIGTERM is sent only to the pid of the supervised browser
\* of the current spawn, and never once the supervisor has seen that process
\* exit (its child.wait() has returned)
C34_SignalOnlyLiveBrowser ==
    [][killed' # killed =>
          /\ killed' = killed \cup {chrome_pid}
          /\ chrome_pid = nspawn
          /\ sup_pc \in {"unlock_spawn", "set_visible", "running"}]_vars

\* the part of run_loop that belongs to one spawned browser: from its spawn to
\* the return of child.wait(), or the error return of a failed start
OwnsBrowser ==
    sup_pc \in {"loading", "lock_spawn", "write_pid", "unlock_spawn",
                "set_visible", "running", "failed"}

\* C35: at most one supervised browser at a time: a browser is alive only
\* while the supervisor is in the part of its loop that belongs to that browser,
\* and a spawn begins only when no browser is alive, no pid is recorded and
\* the pid lock is free, whatever Show, Hide, Toggle and relay frames arrive
C35_OneBrowserAtATime ==
    /\ [](child = "alive" => OwnsBrowser)
    /\ [][nspawn' = nspawn + 1 =>
             /\ child # "alive" /\ chrome_pid = 0 /\ pid_lock = "free"
             /\ child' = "alive" /\ sup_pc' = "loading"]_vars

\* the first browser exited, a wake-up let the supervisor spawn the second
\* one, and a Hide was applied while it starts
C35_Witness ==
    /\ nspawn = 2 /\ child = "alive" /\ sup_pc = "loading" /\ chrome_pid = 0
    /\ ncalls >= 2 /\ lastCall = "Hide" /\ ~visible

\* a step that applies a Hide (the call itself or Toggle's hide branch)
HideStep == ncalls' = ncalls + 1 /\ lastCall' = "Hide"

\* C36: a Hide only clears visible and sends HideWindow to the subscribers of
\* that moment: it leaves quit_requested, badge_count, dnd and chrome_pid
\* unchanged, signals no process, leaves the show signal as it is and moves
\* neither the supervisor nor the browser
C36_HideOnlyClearsAndBroadcasts ==
    [][HideStep =>
          /\ ~visible'
          /\ IF \E s \in Subs : sub[s] = "open"
                THEN /\ sent' = sent + 1
                     /\ hist' = Append(hist, "HideWindow")
                     /\ buf'[Len(buf')] = "HideWindow"
                ELSE UNCHANGED <<sent, hist, buf>>
          /\ UNCHANGED <<quit_requested, badge_count, dnd, chrome_pid, pid_lock>>
          /\ UNCHANGED <<killed, show_signal, wakes, resumes, nquits, qpc>>
          /\ UNCHANGED <<supVars, nspawn, child>>]_vars

\* a Hide was applied while the supervisor waits for a Show: the supervisor
\* still waits, unwoken, visible is false and HideWindow is the last command
C36_Witness ==
    /\ lastCall = "Hide" /\ lastWriter = "Hide" /\ ~visible
    /\ sup_pc = "waiting" /\ show_signal = "waiting" /\ wakes = 0
    /\ sent >= 1 /\ hist[sent] = "HideWindow"

\* ---- the debugging pipe

\* C37 as stated: the daemon's two pipe ends are open in every state, and a
\* loader that has returned has written exactly one request, with id 1
C37_FdsOpenAndOneRequest ==
    /\ daemon_fds = DaemonFds
    /\ cdp_pc = "done" => cmd_pipe = <<LoadUnpacked>>

\* C37 (amended): the daemon's two pipe ends are open in every state, on every
\* return path of the loader and while the browser lives; the loader writes
\* at most one request, with id 1: exactly one once its write succeeded, and
\* none only when the write failed and the loader returned that I/O error
C37_FdsOpenAtMostOneRequest ==
    /\ daemon_fds = DaemonFds
    /\ cdp_pc = "send" => cmd_pipe = <<>>
    /\ cdp_pc = "read" => cmd_pipe = <<LoadUnpacked>>
    /\ cdp_pc = "done" =>
          \/ cmd_pipe = <<LoadUnpacked>>
          \/ cmd_pipe = <<>> /\ cdp_result.status = "io_error" /\ ~request_seen

\* the loader returned the browser's error response after passing over other
\* messages; the browser lives, both pipe ends are open and one request was
\* written
C37_Witness ==
    /\ cdp_pc = "done" /\ cdp_result.status = "cdp_failed" /\ skipped
    /\ pipe_open /\ daemon_fds = DaemonFds /\ cmd_pipe = <<LoadUnpacked>>

\* the complete NUL-terminated segments at the front of a byte sequence
RECURSIVE SegmentsOf(_)
SegmentsOf(bytes) ==
    IF \A i \in 1..Len(bytes) : bytes[i] # NUL
       THEN <<>>
       ELSE LET pos == CHOOSE i \in 1..Len(bytes) :
                          bytes[i] = NUL /\ \A j \in 1..(i - 1) : bytes[j] # NUL
            IN  <<SubSeq(bytes, 1, pos - 1)>> \o SegmentsOf(SubSeq(bytes, pos + 1, Len(bytes)))

\* the segments the loader has complete once it has taken its next read
SegmentsAfterRead ==
    SegmentsOf(accumulated \o SubSeq(pipe, 1, Min(Len(pipe), BUF_SIZE)))

\* the first id:1 object with result or error among complete segments
FirstResponse(segs) ==
    LET i == CHOOSE k \in 1..Len(segs) :
                segs[k] \in Responses /\ \A j \in 1..(k - 1) : segs[j] \notin Responses
    IN  segs[i]

\* what a read that takes bytes from the pipe does with the complete segments
ReadStepOutcome ==
    LET segs == SegmentsAfterRead IN
    IF \E k \in 1..Len(segs) : segs[k] \in Responses
       THEN /\ cdp_pc' = "done"
            /\ cdp_result'.status = "ok" <=> FirstResponse(segs) = <<"id:1", "result">>
            /\ cdp_result'.status \in {"ok", "cdp_failed"}
       ELSE /\ cdp_pc' = "read"
            /\ cdp_result' = cdp_result

\* C38: the loader reports success only after it received an id:1 object with
\* result; a read that finds end of file returns a failure; a read whose
\* complete segments hold no id:1 object with result or error (only invalid
\* JSON, other messages, or an id:1 object with neither) leaves the loader in
\* its read loop, and otherwise the first such object decides the outcome
C38_SuccessOnlyAfterResult ==
    /\ [](cdp_result.status = "ok" =>
             (cdp_pc = "done" /\ answer_at = "read" /\ answer.status = "ok"))
    /\ [](cdp_result.status = "pipe_closed" =>
             (cdp_pc = "done" /\ ~pipe_open /\ pipe = <<>> /\ answer_at # "read"))
    /\ [][(cdp_pc = "read" /\ pipe = <<>> /\ ~pipe_open /\ cdp_pc' # cdp_pc) =>
             cdp_result'.status \in {"pipe_closed", "io_error"}]_vars
    /\ [][(cdp_pc = "read" /\ Len(pipe') < Len(pipe)) => ReadStepOutcome]_vars

\* the loader passed over complete messages, then read the id:1 result and
\* returned success
C38_Witness ==
    /\ cdp_pc = "done" /\ cdp_result.status = "ok" /\ skipped
    /\ answer_at = "read" /\ answer.status = "ok"

\* ---- a Show across the browser's exit

\* C39 (as claimed): no Show is lost across a browser exit: there is no state
\* in which a Show was the last to write visible, after the supervisor's
\* store at the exit, quit_requested is false, no pid is recorded and the
\* supervisor is suspended in its wait with no wake-up on its way
C39_NoShowLost ==
    ~( /\ sup_pc = "waiting" /\ show_signal = "waiting"
       /\ lastWriter = "Show" /\ visible
       /\ chrome_pid = 0 /\ ~quit_requested )

\* ---- a relay connection and the commands sent before it

\* a connection that the server has not accepted has been sent nothing; an
\* accepted one has received, and written, the commands sent after its
\* acceptance up to its position, and the next one it receives is the next
\* command sent after that
OnlyCommandsAfterAcceptance ==
    \A s \in RelayConns :
        /\ sub[s] \in {"none", "pending"} => (rcvd[s] = <<>> /\ conn_out[s] = <<>>)
        /\ sub[s] = "open" =>
              /\ subAt[s] < cursor[s] /\ cursor[s] <= sent + 1
              /\ rcvd[s] = SubSeq(hist, subAt[s] + 1, cursor[s] - 1)
              /\ conn_out[s] = EncodeAll(SubSeq(hist, subAt[s] + 1, cursor[s] - 1))
              /\ cursor[s] <= sent =>
                    (RecvResult(s).kind = "Ok" /\ RecvResult(s).msg = hist[cursor[s]])

\* C40: the server's accept subscribes the connection at the end of what was
\* sent and writes nothing to it, whatever visible is and whatever was sent
\* before; the connection then receives exactly the commands sent after its
\* acceptance, so a command sent while no connection exists reaches none
C40_NothingReplayedOnConnect ==
    /\ []OnlyCommandsAfterAcceptance
    /\ [][\A s \in RelayConns :
             (sub[s] # "open" /\ sub'[s] = "open") =>
                /\ subAt'[s] = sent /\ cursor'[s] = sent + 1
                /\ rcvd'[s] = <<>> /\ conn_out'[s] = <<>>
                /\ UNCHANGED <<sent, buf, hist, visible>>]_vars

\* ShowWindow and then HideWindow were sent with no connection; the
\* connection accepted afterwards, with visible false, was written only the
\* ShowWindow sent after its acceptance
C40_Witness ==
    \E s \in RelayConns :
        /\ sub[s] = "open" /\ subAt[s] = 2
        /\ SubSeq(hist, 1, 2) = <<"ShowWindow", "HideWindow">>
        /\ rcvd[s] = <<"ShowWindow">>
        /\ conn_out[s] = Expected("ShowWindow")

====
